---- MODULE Spec2Model ----
(***************************************************************************)
(* VoiceInputService (src/src/services/VoiceInputService.ts): the static   *)
(* recognition session manager, its timers and the speech engine events.   *)
(*                                                                         *)
(* The class declares resetState and stopAll twice; in a JavaScript class  *)
(* body the later declaration replaces the earlier one, so the model       *)
(* follows lines 583-599 (resetState) and 535-564 (stopAll).               *)
(*                                                                         *)
(* Two specifications are built from the same actions:                     *)
(*   Spec       timers fire in any order (every interleaving of calls,     *)
(*              timer callbacks and engine events);                        *)
(*   SpecTimed  one session on a clock `now` in milliseconds: timers fire  *)
(*              when due, the host starts the session and never stops it.  *)
(***************************************************************************)
EXTENDS Integers, Sequences, FiniteSets, Bags, TLC

\* ---------------------------------------------------------------- bounds
MaxEngines == 3      \* engine objects created by `new SpeechRecognition()`
MaxTimers == 2       \* anonymous setTimeout callbacks pending at once
MaxFinal == 1        \* final transcript segments buffered in finalResults
MaxTicks == 5        \* clock advances in a timed behaviour

\* ------------------------------------------------------ program constants
maxRetries == 5
retryDelay == 1500
maxSilenceDuration == 10000
maxListeningDuration == 60000
restartDelay == 500
startDelay == 100
jitterRange == 500

NULL == "null"
NoTimer == [kind |-> "none", due |-> 0]

Targets == {"title", "step"}
\* Each field's component passes its own callback (VoiceInputButton.tsx:50).
CallbackOf(t) == IF t = "title" THEN "cbTitle" ELSE "cbStep"

FatalErrors == {"not-allowed", "service-not-allowed", "audio-capture"}
ErrorKinds == {"no-speech", "aborted", "network", "bad-grammar"} \cup FatalErrors
ResultKinds == {"interim", "final", "malformed"}

\* Engine life cycle of one SpeechRecognition object (Web Speech API):
\*   inactive     not started
\*   starting     start() accepted, start event not yet delivered
\*   running      start event delivered
\*   stopStarting stop() called before the start event was delivered
\*   stopping     stop() called, end event pending
\*   ending       error event delivered, end event pending
\*   endingFatal  as ending, after a fatal error delivered to a listening session
\* An engine whose handle was discarded (handlers FALSE) can no longer be
\* reached by the program: it is kept as "running" while it still holds the
\* microphone (started, stop() never called) and as "inactive" otherwise.
EngineStates == {"none", "inactive", "starting", "running", "stopStarting",
                 "stopping", "ending", "endingFatal"}
Started == {"starting", "running"}

VARIABLES
    recognition,            \* 0 (null) or the id of the current engine object
    isListening, isInitialized,
    finalResults,           \* number of final segments buffered (0 = '')
    targetField, currentCallback,
    processingTimeout, autoStopTimeout,   \* pending named timer or NoTimer
    lastActivityTimestamp, retryCount,
    engines,                \* id -> [st, handlers]: every engine object created
    timers,                 \* bag of pending anonymous setTimeout callbacks
    now, timed, ticks,      \* clock (SpecTimed)
    supported,              \* window.SpeechRecognition exists
    session,                \* history: target of the accepted, not stopped session
    unknownRetries,         \* history: this session has scheduled an unknown-error retry
    listenSince,            \* history: time isListening last became true
    quiet,                  \* the user never speaks (SpecQuiet)
    backoffs,               \* history (SpecQuiet, SpecOffline): delays of the
                            \* no-speech or network retries so far
    last,                   \* history: what the last step did
    component,              \* the class whose instance takes the utterances (SpecCommands)
    commands,               \* CommandProcessor.commands: the registered definitions
    pauseHandler,           \* CommandPauseHandler: [lastCommand, lastTimestamp]
    processor,              \* CommandProcessor: [lastCommand, lastSuggestions]
    recording,              \* history: the command and time of the latest
                            \* updateContext since construction or resetContext
    call,                   \* history: the last call of the command pipeline
    editor                  \* EnhancedMaterials: [materials, continuousMode]

vars == <<recognition, isListening, isInitialized, finalResults,
          targetField, currentCallback, processingTimeout, autoStopTimeout,
          lastActivityTimestamp, retryCount, engines, timers, now, timed, ticks,
          supported, session, unknownRetries, listenSince, quiet, backoffs,
          last, component, commands, pauseHandler, processor, recording, call,
          editor>>

\* The command pipeline's variables: no step of the recognition service
\* touches them.
pipeline == <<component, commands, pauseHandler, processor, recording, call,
              editor>>

\* interimResults is written by onresult before onresult reads it and is read
\* nowhere else (711, 755-757), so no value of it outlives a handler: it is a
\* field of the handler's working state and no variable.
\* The state a handler works on, with the per-step record of what it did:
\* startCalled (engine start() was called), sched (setTimeout calls),
\* cbInvoked (currentCallback was called), overflow (a bound was exceeded).
World ==
    [recognition |-> recognition, isListening |-> isListening,
     isInitialized |-> isInitialized, interimResults |-> FALSE,
     finalResults |-> finalResults, targetField |-> targetField,
     currentCallback |-> currentCallback,
     processingTimeout |-> processingTimeout,
     autoStopTimeout |-> autoStopTimeout,
     lastActivityTimestamp |-> lastActivityTimestamp,
     retryCount |-> retryCount, engines |-> engines, timers |-> timers,
     session |-> session, unknownRetries |-> unknownRetries,
     startCalled |-> FALSE, sched |-> 0, cbInvoked |-> NULL, backoffDelay |-> 0,
     stopIssued |-> FALSE, overflow |-> FALSE]

Due(delay) == IF timed THEN now + delay ELSE 0

\* Date.now() - lastActivityTimestamp >= d; without a clock either outcome.
SilenceOutcomes(d) ==
    IF timed THEN {now - lastActivityTimestamp >= d} ELSE BOOLEAN

\* Math.random() * 500, truncated by setTimeout to whole milliseconds.
Jitters == IF timed THEN {0, jitterRange - 1} ELSE {0}

RECURSIVE Pow(_, _)
Pow(b, n) == IF n = 0 THEN 1 ELSE b * Pow(b, n - 1)

\* retryDelay * Math.pow(backoffFactor, n - 1) with backoffFactor = 1.5
BackoffDelay(n) == (retryDelay * Pow(3, n - 1)) \div Pow(2, n - 1)

\* ------------------------------------------------------------- the engine
\* recognition.stop(): a started engine begins stopping; otherwise nothing.
EngineStop(w, e) ==
    LET st == w.engines[e].st
        st2 == CASE st = "running" -> "stopping"
                 [] st = "starting" -> "stopStarting"
                 [] OTHER -> st
    IN [w EXCEPT !.engines[e].st = st2, !.stopIssued = TRUE]

\* Outcome of this.recognition?.start(): "noop" on a null handle,
\* InvalidStateError unless the engine is inactive; thr: the platform
\* refuses the start with another exception.
StartOutcome(w, thr) ==
    IF w.recognition = 0 THEN "noop"
    ELSE IF w.engines[w.recognition].st # "inactive" THEN "InvalidStateError"
    ELSE IF thr THEN "OtherError"
    ELSE "ok"

\* The effect of the start() call itself.
EngineStart(w, thr) ==
    IF StartOutcome(w, thr) = "ok"
    THEN [w EXCEPT !.engines[w.recognition].st = "starting", !.startCalled = TRUE]
    ELSE IF w.recognition = 0 THEN w
    ELSE [w EXCEPT !.startCalled = TRUE]

\* setTimeout(closure, delay) with no handle kept.
SetTimeout(w, kind, delay) ==
    [w EXCEPT !.timers = @ (+) SetToBag({[kind |-> kind, due |-> Due(delay),
                                          stale |-> FALSE]}),
              !.sched = @ + 1]

\* ------------------------------------------------------ service procedures
\* clearTimeouts that forgets the maximum-duration timer.
clearTimeoutsProcessingOnly(w) == [w EXCEPT !.processingTimeout = NoTimer]

clearTimeouts(w) ==
    [w EXCEPT !.processingTimeout = NoTimer, !.autoStopTimeout = NoTimer]

resetState(w) ==
    [w EXCEPT !.isListening = FALSE, !.currentCallback = NULL,
              !.interimResults = FALSE, !.finalResults = 0,
              !.targetField = NULL, !.lastActivityTimestamp = 0,
              !.retryCount = 0, !.session = NULL]

\* Every pending anonymous callback was scheduled before this stop.
MarkStale(w) ==
    LET ts == BagToSet(w.timers)
        Count(k, d) == (IF [kind |-> k, due |-> d, stale |-> FALSE] \in ts
                        THEN w.timers[[kind |-> k, due |-> d, stale |-> FALSE]]
                        ELSE 0)
                     + (IF [kind |-> k, due |-> d, stale |-> TRUE] \in ts
                        THEN w.timers[[kind |-> k, due |-> d, stale |-> TRUE]]
                        ELSE 0)
        marked == {[t EXCEPT !.stale = TRUE] : t \in ts}
    IN [w EXCEPT !.timers = [t \in marked |-> Count(t.kind, t.due)]]

stopListening(w) ==
    LET w1 == MarkStale(clearTimeouts(w))
    IN IF ~w1.isListening \/ w1.recognition = 0
       THEN resetState(w1)
       ELSE resetState(EngineStop(w1, w1.recognition))

cleanupRecognition(w) ==
    LET w1 == IF w.recognition # 0
              THEN LET ws == IF w.isListening
                             THEN EngineStop(w, w.recognition) ELSE w
                   IN [ws EXCEPT !.engines[w.recognition] =
                                     [st |-> IF ws.engines[w.recognition].st \in Started
                                             THEN "running" ELSE "inactive",
                                      handlers |-> FALSE],
                                 !.recognition = 0, !.isInitialized = FALSE]
              ELSE w
    IN resetState(clearTimeouts(w1))

NextEngine(w) == Cardinality({e \in DOMAIN w.engines : w.engines[e].st # "none"}) + 1

\* initialize(): TRUE in .ok when a usable engine handle exists afterwards.
initialize(w) ==
    IF w.isInitialized /\ w.recognition # 0 THEN [ok |-> TRUE, w |-> w]
    ELSE IF ~supported THEN [ok |-> FALSE, w |-> w]
    ELSE LET w1 == cleanupRecognition(w)
             e == NextEngine(w1)
         IN IF e > MaxEngines
            THEN [ok |-> FALSE, w |-> [w1 EXCEPT !.overflow = TRUE]]
            ELSE [ok |-> TRUE,
                  w |-> [w1 EXCEPT !.engines[e] = [st |-> "inactive", handlers |-> TRUE],
                                   !.recognition = e, !.isInitialized = TRUE]]

setupAutoStopTimeout(w) ==
    [w EXCEPT !.autoStopTimeout = [kind |-> "setup", due |-> Due(maxListeningDuration)],
              !.sched = @ + 1]

stopAll(w) ==
    LET w1 == resetState(cleanupRecognition(stopListening(w)))
    IN [w1 EXCEPT !.targetField = NULL, !.currentCallback = NULL]

\* ------------------------------------------------- startListening (111-195)
startListening(w, t, c) ==
    IF w.isListening /\ w.targetField = t THEN [ret |-> TRUE, w |-> w]
    ELSE LET w1 == IF w.isListening THEN stopListening(w) ELSE w
             i == initialize(w1)
         IN IF ~i.ok THEN [ret |-> FALSE, w |-> i.w]
            ELSE [ret |-> TRUE,
                  w |-> SetTimeout([i.w EXCEPT !.targetField = t,
                                               !.currentCallback = c,
                                               !.lastActivityTimestamp = now,
                                               !.interimResults = FALSE,
                                               !.finalResults = 0,
                                               !.retryCount = 0,
                                               !.session = t,
                                               !.unknownRetries = FALSE],
                                   "start", startDelay)]

\* `this.isListening = false` in a failure path: the session is given up.
GiveUp(w) == [w EXCEPT !.isListening = FALSE, !.session = NULL]

\* The deferred start closure (151-186).
onDeferredStart(w, thr) ==
    LET o == StartOutcome(w, thr)
        w1 == EngineStart(w, thr)
    IN IF o \in {"ok", "noop"}
       THEN setupAutoStopTimeout([w1 EXCEPT !.isListening = TRUE])
       ELSE IF o = "InvalidStateError"
       THEN SetTimeout(initialize(cleanupRecognition(w1)).w, "startRetry", startDelay)
       ELSE GiveUp(w1)

\* The second attempt after InvalidStateError (167-178).
onStartRetry(w, thr) ==
    LET o == StartOutcome(w, thr)
        w1 == EngineStart(w, thr)
    IN IF o \in {"ok", "noop"}
       THEN setupAutoStopTimeout([w1 EXCEPT !.isListening = TRUE])
       ELSE GiveUp(w1)

\* ------------------------------------------- engine event handlers (635-1065)
onstart(w) ==
    LET w1 == clearTimeouts([w EXCEPT !.isListening = TRUE,
                                      !.lastActivityTimestamp = now,
                                      !.retryCount = 0])
    IN [w1 EXCEPT !.autoStopTimeout = [kind |-> "onstart",
                                       due |-> Due(maxListeningDuration)],
                  !.sched = @ + 1]

Notify(w) ==
    IF w.currentCallback # NULL /\ (w.interimResults \/ w.finalResults > 0)
    THEN [w EXCEPT !.cbInvoked = w.currentCallback]
    ELSE w

onresult(w, k) ==
    LET w1 == [w EXCEPT !.lastActivityTimestamp = now, !.retryCount = 0]
    IN CASE k = "malformed" -> w1
         [] k = "interim" -> Notify([w1 EXCEPT !.interimResults = TRUE])
         [] k = "final" ->
              LET w2 == clearTimeouts([w1 EXCEPT !.interimResults = FALSE,
                                                 !.finalResults = @ + 1,
                                                 !.overflow = (w.finalResults >= MaxFinal)])
              IN Notify([w2 EXCEPT !.processingTimeout =
                                       [kind |-> "result", due |-> Due(maxSilenceDuration)],
                                   !.sched = @ + 1])

\* A retry closure of the error handler whose catch only logs (864-872, 903-911).
RetryStartLogged(w, thr) ==
    IF w.isListening /\ w.recognition # 0 THEN EngineStart(w, thr) ELSE w

\* A retry closure that recreates the engine on InvalidStateError
\* (795-817, 828-851); `again` names the closure that starts the new engine.
RetryStartRecreate(w, thr, again) ==
    IF w.isListening /\ w.recognition # 0
    THEN LET o == StartOutcome(w, thr)
             w1 == EngineStart(w, thr)
         IN IF o = "InvalidStateError"
            THEN SetTimeout(initialize(cleanupRecognition(w1)).w, again, startDelay)
            ELSE w1
    ELSE w

\* Start of a recreated engine, exceptions logged (807-813).
onRecreated(w, thr) == EngineStart(w, thr)

\* Start of a recreated engine, isListening cleared on an exception
\* (839-847, 948-960, 971-983).
onRecreatedOrGiveUp(w, thr) ==
    LET o == StartOutcome(w, thr)
        w1 == EngineStart(w, thr)
    IN IF o \in {"ok", "noop"} THEN w1 ELSE GiveUp(w1)

\* case 'no-speech' (774-820): .done is FALSE after `return`.
onErrorNoSpeech(w, jit) ==
    IF w.isListening /\ w.retryCount < maxRetries
    THEN [retry |-> TRUE,
          w |-> SetTimeout([w EXCEPT !.retryCount = @ + 1,
                                     !.backoffDelay = BackoffDelay(w.retryCount + 1) + jit],
                           "noSpeech", BackoffDelay(w.retryCount + 1) + jit)]
    ELSE [retry |-> FALSE, w |-> w]

\* case 'aborted' (822-854)
onErrorAborted(w) ==
    IF w.isListening
    THEN [retry |-> TRUE, w |-> SetTimeout(w, "aborted", restartDelay)]
    ELSE [retry |-> FALSE, w |-> w]

\* case 'network' (856-875)
onErrorNetwork(w) ==
    IF w.isListening /\ w.retryCount < maxRetries
    THEN [retry |-> TRUE,
          w |-> SetTimeout([w EXCEPT !.retryCount = @ + 1,
                                     !.backoffDelay = retryDelay * 2],
                           "retryLogged", retryDelay * 2)]
    ELSE [retry |-> FALSE, w |-> w]

\* A fatal case that retried like the default case would: the variant the
\* fatal-error property must tell apart from the cases below.
onErrorFatalRetrying(w) ==
    IF w.isListening
    THEN [retry |-> TRUE, w |-> SetTimeout(w, "retryLogged", retryDelay)]
    ELSE [retry |-> FALSE, w |-> w]

\* cases 'not-allowed', 'service-not-allowed', 'audio-capture' (877-890):
\* a message only, then the handler's tail.
onErrorFatal(w) == [retry |-> FALSE, w |-> w]

\* default (892-913)
onErrorUnknown(w) ==
    IF w.isListening /\ w.retryCount = 0
    THEN [retry |-> TRUE,
          w |-> SetTimeout([w EXCEPT !.retryCount = @ + 1,
                                     !.unknownRetries = TRUE],
                           "retryLogged", retryDelay)]
    ELSE [retry |-> FALSE, w |-> w]

\* The tail of the error handler (916-919).
onErrorTail(w, k) ==
    IF k # "no-speech" /\ k # "aborted" THEN stopListening(w) ELSE w

onerror(w, k, jit) ==
    LET r == CASE k = "no-speech" -> onErrorNoSpeech(w, jit)
               [] k = "aborted" -> onErrorAborted(w)
               [] k = "network" -> onErrorNetwork(w)
               [] k \in FatalErrors -> onErrorFatal(w)
               [] OTHER -> onErrorUnknown(w)
    IN IF r.retry THEN r.w ELSE onErrorTail(r.w, k)

Min(a, b) == IF a < b THEN a ELSE b

onend(w) ==
    IF w.isListening
    THEN SetTimeout(w, "endRestart",
                    IF w.retryCount > 1 THEN restartDelay * Min(w.retryCount, 3)
                    ELSE restartDelay)
    ELSE IF w.finalResults > 0 /\ w.currentCallback # NULL
    THEN [w EXCEPT !.cbInvoked = w.currentCallback]
    ELSE w

\* The restart closure of onend (936-1015). hasState: the platform exposes
\* recognition.state (it is no part of the Web Speech API; where it is
\* undefined the comparison with 'inactive' is false).
onEndRestart(w, thr, hasState) ==
    IF w.isListening /\ w.recognition # 0
    THEN IF hasState /\ w.engines[w.recognition].st = "inactive"
         THEN LET o == StartOutcome(w, thr)
                  w1 == EngineStart(w, thr)
              IN IF o = "ok" THEN w1
                 ELSE IF o = "InvalidStateError"
                 THEN SetTimeout(initialize(cleanupRecognition(w1)).w,
                                 "recreatedOrGiveUp", startDelay)
                 ELSE IF w1.retryCount >= maxRetries THEN GiveUp(w1)
                 ELSE SetTimeout([w1 EXCEPT !.retryCount = @ + 1], "endBackoff",
                                 BackoffDelay(w1.retryCount + 1))
         ELSE SetTimeout(initialize(cleanupRecognition(w)).w,
                         "recreatedOrGiveUp", startDelay)
    ELSE w

\* The backoff closure of onend (998-1010).
onEndBackoff(w, thr) ==
    IF w.isListening
    THEN LET w1 == initialize(cleanupRecognition(w)).w
             o == StartOutcome(w1, thr)
             w2 == EngineStart(w1, thr)
         IN IF o \in {"ok", "noop"} THEN w2 ELSE GiveUp(w2)
    ELSE w

onspeechstart(w) == [w EXCEPT !.lastActivityTimestamp = now]

onspeechend(w) ==
    LET w1 == clearTimeouts([w EXCEPT !.lastActivityTimestamp = now])
    IN [w1 EXCEPT !.processingTimeout =
                      [kind |-> "speechend", due |-> Due(maxSilenceDuration \div 2)],
                  !.sched = @ + 1]

\* ------------------------------------------------------------------ steps
\* The record of a step: op and kind name the call, callback or event;
\* stale: the timer was scheduled before a stopListening; wasListening:
\* isListening before the step; engSt: the engine's state before its event
\* when a stop or a fatal error had preceded; startCalled, sched, cbInvoked:
\* the step called engine start(), setTimeout, the session's callback;
\* again: the step repeats a startListening for the session's target, or is
\* an error in a session that has already retried an unknown error;
\* stopIssued: the call called engine stop(); ret: the value the call returned;
\* flush: the call stopped a listening session whose finalResults was not
\* empty, or the event is the end of the engine that the call just stopped.
NoLast == [op |-> "init", kind |-> NULL, stale |-> FALSE, wasListening |-> FALSE,
           engSt |-> "none", startCalled |-> FALSE, sched |-> 0,
           cbInvoked |-> FALSE, again |-> FALSE,
           stopIssued |-> FALSE, ret |-> TRUE, flush |-> FALSE]

\* The class's static initialisers (10-36) and the history variables.
Fresh ==
    /\ recognition = 0 /\ isListening = FALSE /\ isInitialized = FALSE
    /\ finalResults = 0
    /\ targetField = NULL /\ currentCallback = NULL
    /\ processingTimeout = NoTimer /\ autoStopTimeout = NoTimer
    /\ lastActivityTimestamp = 0 /\ retryCount = 0
    /\ engines = [e \in 1..MaxEngines |-> [st |-> "none", handlers |-> FALSE]]
    /\ timers = EmptyBag
    /\ now = 0 /\ ticks = 0
    /\ supported \in BOOLEAN
    /\ session = NULL /\ unknownRetries = FALSE /\ listenSince = 0
    /\ backoffs = <<>>
    /\ last = NoLast

\* CommandPauseHandler's field initialisers (commandUtils.ts 129-130) and
\* CommandProcessor's (part_013 25-28)
NoCall == [op |-> "init", arg |-> <<>>, ret |-> FALSE, str |-> <<>>,
           continuation |-> FALSE, attempts |-> <<>>,
           before |-> [has |-> FALSE, command |-> <<>>, at |-> 0, failed |-> FALSE],
           intent |-> [text |-> <<>>, kind |-> "none", item |-> <<>>, value |-> <<>>],
           saved |-> FALSE, old |-> <<>>, offer |-> <<>>]
\* the useState initial values of EnhancedMaterials (part_005 518-521)
NoEditor == editor = [materials |-> <<>>, continuousMode |-> FALSE]
Constructed ==
    /\ pauseHandler = [lastCommand |-> <<NULL>>, lastTimestamp |-> 0]
    /\ processor = [lastCommand |-> <<>>, lastSuggestions |-> <<>>]
    /\ recording = [has |-> FALSE, command |-> <<>>, at |-> 0, failed |-> FALSE]

\* No command component is mounted.
Unmounted ==
    Constructed /\ NoEditor /\ call = NoCall /\ component = NULL /\ commands = <<>>

Init == Fresh /\ Unmounted /\ timed = FALSE /\ quiet = FALSE

\* The state after a handler ran on World, and the record of the step.
Commit(w, l) ==
    /\ ~w.overflow
    /\ BagCardinality(w.timers) <= MaxTimers
    /\ recognition' = w.recognition
    /\ isListening' = w.isListening
    /\ isInitialized' = w.isInitialized
    /\ finalResults' = w.finalResults
    /\ targetField' = w.targetField
    /\ currentCallback' = w.currentCallback
    /\ processingTimeout' = w.processingTimeout
    /\ autoStopTimeout' = w.autoStopTimeout
    /\ lastActivityTimestamp' = w.lastActivityTimestamp
    /\ retryCount' = w.retryCount
    /\ engines' = w.engines
    /\ timers' = w.timers
    /\ session' = w.session
    /\ unknownRetries' = w.unknownRetries
    /\ listenSince' = IF ~w.isListening THEN 0
                      ELSE IF ~isListening THEN now ELSE listenSince
    /\ last' = l
    /\ backoffs' = IF quiet /\ w.backoffDelay > 0
                   THEN Append(backoffs, w.backoffDelay) ELSE backoffs
    /\ UNCHANGED <<now, timed, ticks, supported, quiet>>
    /\ UNCHANGED pipeline

\* The engine dispatches the end event right after an error event: no other
\* callback runs between the two (stop() is different: the engine may deliver
\* results for a while before it ends).
EndPending == \E e \in 1..MaxEngines : engines[e].st \in {"ending", "endingFatal"}

\* --- calls of the host UI
StartListening(t) ==
    /\ ~EndPending
    /\ t \in Targets
    /\ LET r == startListening(World, t, CallbackOf(t))
       IN Commit(r.w, [NoLast EXCEPT !.op = "startListening",
                                     !.again = (session = t),
                                     !.sched = r.w.sched,
                                     !.ret = r.ret])

\* stopListening returns true at 229 and at 245; false only in the catch of
\* an exception of stop(), which the engine never raises.
stopListeningReturns(w) == TRUE

StopListening ==
    /\ ~EndPending
    /\ LET w == stopListening(World)
       IN Commit(w, [NoLast EXCEPT !.op = "stopListening",
                                   !.wasListening = isListening,
                                   !.stopIssued = w.stopIssued,
                                   !.sched = w.sched,
                                   !.ret = stopListeningReturns(World),
                                   !.flush = (isListening /\ recognition # 0
                                              /\ finalResults > 0)])

StopAll ==
    /\ ~EndPending
    /\ Commit(stopAll(World), [NoLast EXCEPT !.op = "stopAll"])

\* --- VoiceResourceManager (utils/VoiceResourceManager.ts), monitoring started
isRecognitionActive(w) == w.isListening

\* handleVisibilityChange with document.visibilityState 'hidden' (72-77)
HandleVisibilityChange ==
    /\ ~EndPending
    /\ Commit(IF isRecognitionActive(World) THEN stopAll(World) ELSE World,
              [NoLast EXCEPT !.op = "visibilitychange"])

\* handleBeforeUnload (82-87)
HandleBeforeUnload ==
    /\ ~EndPending
    /\ Commit(IF isRecognitionActive(World) THEN stopAll(World) ELSE World,
              [NoLast EXCEPT !.op = "beforeunload"])

\* --- anonymous timer callbacks
\* Whether the platform refuses a start() call it could accept; the choice
\* is open only while the current engine is inactive.
Refusals(k) ==
    IF (k = "endBackoff" /\ isListening) \/ (k # "endBackoff" /\ StartOutcome(World, FALSE) = "ok")
    THEN BOOLEAN ELSE {FALSE}
Pending(k) == {tm \in BagToSet(timers) : tm.kind = k /\ tm.due <= now}
Taken(tm) == [World EXCEPT !.timers = @ (-) SetToBag({tm})]
Fired(tm, w) == [NoLast EXCEPT !.op = "timer", !.kind = tm.kind, !.stale = tm.stale,
                            !.startCalled = w.startCalled]
Fire(tm, w) == Commit(w, Fired(tm, w))

TimerStart ==
    /\ ~EndPending
    /\ \E tm \in Pending("start"), thr \in Refusals("start") :
        Fire(tm, onDeferredStart(Taken(tm), thr))

TimerStartRetry ==
    /\ ~EndPending
    /\ \E tm \in Pending("startRetry"), thr \in Refusals("startRetry") :
        Fire(tm, onStartRetry(Taken(tm), thr))

TimerNoSpeech ==
    /\ ~EndPending
    /\ \E tm \in Pending("noSpeech"), thr \in Refusals("noSpeech") :
        Fire(tm, RetryStartRecreate(Taken(tm), thr, "recreated"))

TimerRecreated ==
    /\ ~EndPending
    /\ \E tm \in Pending("recreated"), thr \in Refusals("recreated") :
        Fire(tm, onRecreated(Taken(tm), thr))

TimerAborted ==
    /\ ~EndPending
    /\ \E tm \in Pending("aborted"), thr \in Refusals("aborted") :
        Fire(tm, RetryStartRecreate(Taken(tm), thr, "recreatedOrGiveUp"))

\* the start of an engine recreated by the aborted or the end path
\* (839-847, 948-960, 971-983)
TimerRecreatedOrGiveUp ==
    /\ ~EndPending
    /\ \E tm \in Pending("recreatedOrGiveUp"), thr \in Refusals("recreatedOrGiveUp") :
        Fire(tm, onRecreatedOrGiveUp(Taken(tm), thr))

\* the retry closures of the network and the unknown error (864-872, 903-911)
TimerRetryLogged ==
    /\ ~EndPending
    /\ \E tm \in Pending("retryLogged"), thr \in Refusals("retryLogged") :
        Fire(tm, RetryStartLogged(Taken(tm), thr))

TimerEndRestart ==
    /\ ~EndPending
    /\ \E tm \in Pending("endRestart"), thr \in Refusals("endRestart"),
       hasState \in (IF StartOutcome(World, FALSE) = "ok" /\ isListening
                     THEN BOOLEAN ELSE {FALSE}) :
        Fire(tm, onEndRestart(Taken(tm), thr, hasState))

TimerEndBackoff ==
    /\ ~EndPending
    /\ \E tm \in Pending("endBackoff"), thr \in Refusals("endBackoff") :
        Fire(tm, onEndBackoff(Taken(tm), thr))

\* --- the two named timers
\* autoStopTimeout: armed by setupAutoStopTimeout (207-215) or by onstart (651-662)
TimerAutoStop ==
    /\ ~EndPending
    /\ autoStopTimeout.kind # "none" /\ autoStopTimeout.due <= now
    /\ \E silent \in (IF isListening THEN SilenceOutcomes(maxSilenceDuration)
                       ELSE {TRUE}) :
        LET w == [World EXCEPT !.autoStopTimeout = NoTimer]
            stop == IF autoStopTimeout.kind = "setup" THEN w.isListening
                    ELSE w.isListening /\ silent
        IN Commit(IF stop THEN stopListening(w) ELSE w,
                  [NoLast EXCEPT !.op = "autoStop"])

\* processingTimeout: armed by onresult (742-751) or by onspeechend (1047-1054)
TimerProcessing ==
    /\ ~EndPending
    /\ processingTimeout.kind # "none" /\ processingTimeout.due <= now
    /\ \E silent \in SilenceOutcomes(IF processingTimeout.kind = "result"
                                     THEN maxSilenceDuration
                                     ELSE maxSilenceDuration \div 2) :
        LET w == [World EXCEPT !.processingTimeout = NoTimer]
            stop == IF processingTimeout.kind = "result" THEN silent
                    ELSE w.isListening /\ silent
        IN Commit(IF stop THEN stopListening(w) ELSE w,
                  [NoLast EXCEPT !.op = "processing"])

\* --- engine events; a handler runs only while it is attached
\* The handler's working state: the engine has made its own transition.
WorldAt(e, st2) == [World EXCEPT !.engines[e].st = st2]

Event(e, name, k, w) ==
    Commit(w, [NoLast EXCEPT
                 !.op = name, !.kind = k,
                 !.engSt = IF engines[e].st \in {"stopping", "stopStarting", "endingFatal"}
                           THEN engines[e].st ELSE "none",
                 !.wasListening = isListening,
                 !.sched = w.sched,
                 !.cbInvoked = (w.cbInvoked # NULL),
                 !.again = (name = "error" /\ unknownRetries),
                 !.flush = (name = "end" /\ e = recognition
                            /\ last.op = "stopListening" /\ last.flush)])

EvStart(e) ==
    /\ ~EndPending
    /\ engines[e].st \in {"starting", "stopStarting"} /\ engines[e].handlers
    /\ Event(e, "start", NULL,
             onstart(WorldAt(e, IF engines[e].st = "starting" THEN "running"
                                ELSE "stopping")))

EvResult(e, k) ==
    /\ ~EndPending
    /\ engines[e].st \in {"running", "stopping"} /\ engines[e].handlers
    /\ Event(e, "result", k, onresult(World, k))

EvSpeechStart(e) ==
    /\ ~EndPending
    /\ engines[e].st = "running" /\ engines[e].handlers
    /\ Event(e, "speechstart", NULL, onspeechstart(World))

EvSpeechEnd(e) ==
    /\ ~EndPending
    /\ engines[e].st \in {"running", "stopping"} /\ engines[e].handlers
    /\ Event(e, "speechend", NULL, onspeechend(World))

EvError(e, k) ==
    /\ ~EndPending
    /\ engines[e].st \in {"starting", "running", "stopping"} /\ engines[e].handlers
    /\ \E jit \in Jitters :
        Event(e, "error", k,
              onerror(WorldAt(e, IF k \in FatalErrors /\ isListening
                                 THEN "endingFatal" ELSE "ending"), k, jit))

\* The end event; an engine that was discarded while started ends unobserved.
EvEnd(e) ==
    /\ engines[e].st \in {"running", "stopping", "stopStarting", "ending", "endingFatal"}
    /\ EndPending => engines[e].st \in {"ending", "endingFatal"}
    /\ IF engines[e].handlers
       THEN Event(e, "end", NULL, onend(WorldAt(e, "inactive")))
       ELSE Event(e, "end", NULL, WorldAt(e, "inactive"))

Next ==
    \/ \E t \in Targets : StartListening(t)
    \/ StopListening
    \/ StopAll
    \/ TimerStart \/ TimerStartRetry
    \/ TimerNoSpeech \/ TimerRecreated
    \/ TimerAborted \/ TimerRecreatedOrGiveUp
    \/ TimerRetryLogged
    \/ TimerEndRestart \/ TimerEndBackoff
    \/ TimerAutoStop \/ TimerProcessing
    \/ \E e \in 1..MaxEngines :
        \/ EvStart(e)
        \/ \E k \in ResultKinds : EvResult(e, k)
        \/ EvSpeechEnd(e)
        \/ \E k \in ErrorKinds : EvError(e, k)
        \/ EvEnd(e)

Spec == Init /\ [][Next]_vars

\* The service with the page events that VoiceResourceManager listens to.
NextMonitored ==
    \/ Next
    \/ HandleVisibilityChange
    \/ HandleBeforeUnload

SpecMonitored == Init /\ [][NextMonitored]_vars

\* ------------------------------------------------------------- with a clock
InitTimed == Fresh /\ Unmounted /\ timed = TRUE /\ quiet = FALSE

\* Due times of everything pending: the anonymous callbacks and the two
\* named timers.
DueTimes ==
    {tm.due : tm \in BagToSet(timers)}
        \cup (IF autoStopTimeout.kind # "none" THEN {autoStopTimeout.due} ELSE {})
        \cup (IF processingTimeout.kind # "none" THEN {processingTimeout.due} ELSE {})

\* Lengths of a period in which nothing is called and no event arrives.
TickSteps == {maxSilenceDuration, maxListeningDuration}

\* An engine that accepted start() delivers its start event (or an error)
\* before the clock moves on: its start-up time is not what the timers measure.
StartPending == \E e \in 1..MaxEngines : engines[e].st \in {"starting", "stopStarting"}

\* Time passes: never while a callback is due, and never past the next one.
Tick ==
    /\ timed /\ ticks < MaxTicks /\ ~EndPending /\ ~StartPending
    /\ \A d \in DueTimes : d > now
    /\ \E step \in TickSteps :
        /\ now' = IF \E d \in DueTimes : d < now + step
                  THEN CHOOSE d \in DueTimes : \A d2 \in DueTimes : d <= d2
                  ELSE now + step
    /\ ticks' = ticks + 1
    /\ last' = [NoLast EXCEPT !.op = "tick"]
    /\ UNCHANGED <<recognition, isListening, isInitialized, finalResults,
                   targetField, currentCallback, processingTimeout,
                   autoStopTimeout, lastActivityTimestamp, retryCount, engines,
                   timers, timed, supported, session, unknownRetries, listenSince,
                   quiet, backoffs>>
    /\ UNCHANGED pipeline

\* One session on the clock: the host calls startListening at time 0 and
\* leaves the session to its timers and to the engine. The second attempt of
\* the deferred start (TimerStartRetry) needs an engine left started by an
\* earlier session, so it is no step of a single session.
StartSession ==
    /\ now = 0 /\ session = NULL
    /\ \E t \in Targets : StartListening(t)

NextTimed ==
    \/ StartSession
    \/ TimerStart
    \/ TimerNoSpeech \/ TimerRecreated
    \/ TimerAborted \/ TimerRecreatedOrGiveUp
    \/ TimerRetryLogged
    \/ TimerEndRestart \/ TimerEndBackoff
    \/ TimerAutoStop \/ TimerProcessing
    \/ \E e \in 1..MaxEngines :
        \/ EvStart(e)
        \/ \E k \in ResultKinds : EvResult(e, k)
        \/ EvSpeechStart(e)
        \/ EvSpeechEnd(e)
        \/ \E k \in ErrorKinds : EvError(e, k)
        \/ EvEnd(e)
    \/ Tick

SpecTimed == InitTimed /\ [][NextTimed]_vars

\* ------------------------------------------- a session in which nobody speaks
\* One session on the clock whose engine hears nothing: its only events are
\* start, the no-speech error and end, so every no-speech retry follows the
\* previous one with no result in between.
InitQuiet == Fresh /\ Unmounted /\ timed = TRUE /\ quiet = TRUE

NextQuiet ==
    \/ StartSession
    \/ TimerStart
    \/ TimerNoSpeech \/ TimerRecreated
    \/ TimerRecreatedOrGiveUp
    \/ TimerEndRestart \/ TimerEndBackoff
    \/ TimerAutoStop
    \/ \E e \in 1..MaxEngines :
        \/ EvStart(e)
        \/ EvError(e, "no-speech")
        \/ EvEnd(e)
    \/ Tick

SpecQuiet == InitQuiet /\ [][NextQuiet]_vars

\* ------------------------------------------- a session without a network
\* One session on the clock whose engine cannot reach the recognition
\* service: its only events are start, the network error and end, so every
\* network retry follows the previous one with no result in between.
NextOffline ==
    \/ StartSession
    \/ TimerStart
    \/ TimerRetryLogged
    \/ TimerRecreatedOrGiveUp
    \/ TimerEndRestart \/ TimerEndBackoff
    \/ TimerAutoStop
    \/ \E e \in 1..MaxEngines :
        \/ EvStart(e)
        \/ EvError(e, "network")
        \/ EvEnd(e)
    \/ Tick

SpecOffline == InitQuiet /\ [][NextOffline]_vars

\* ------------------------------------------- a session left to itself, fair
\* One session without a clock: the host calls startListening once and
\* never stops the session; the engine starts, delivers results and ends as
\* it likes. A callback passed to setTimeout runs once its delay
\* has passed (the event loop drops no timer), so every timer callback is
\* weakly fair; engine events and host calls are not.
OpenSession ==
    /\ last.op = "init"
    /\ \E t \in Targets : StartListening(t)

NextSession ==
    \/ OpenSession
    \/ TimerStart
    \/ TimerRecreatedOrGiveUp
    \/ TimerEndRestart \/ TimerEndBackoff
    \/ TimerAutoStop \/ TimerProcessing
    \/ \E e \in 1..MaxEngines :
        \/ EvStart(e)
        \/ \E k \in ResultKinds : EvResult(e, k)
        \/ EvEnd(e)

TimersFair ==
    /\ WF_vars(TimerStart)
    /\ WF_vars(TimerRecreatedOrGiveUp)
    /\ WF_vars(TimerEndRestart)
    /\ WF_vars(TimerEndBackoff)
    /\ WF_vars(TimerAutoStop)
    /\ WF_vars(TimerProcessing)

SpecSession == Init /\ [][NextSession]_vars /\ TimersFair

\* ===================================================================
\* Command utilities (src/src/utils/commandUtils.ts). A string is the
\* sequence of its characters.
\* ===================================================================
Letters == {"a", "b", "c", "d", "e", "f", "g", "h", "i", "j", "k", "l", "m",
            "n", "o", "p", "q", "r", "s", "t", "u", "v", "w", "x", "y", "z"}
Digits == {"0", "1", "2", "3", "4", "5", "6", "7", "8", "9"}
\* \w of a JavaScript regular expression (lower case: the test runs after
\* toLowerCase)
WordChars == Letters \cup Digits \cup {"_"}
\* the upper-case letters that occur in the inputs
UpperCase == [c \in {"A", "N", "S"} |->
                 CASE c = "A" -> "a" [] c = "N" -> "n" [] OTHER -> "s"]

toLowerCase(s) ==
    [i \in DOMAIN s |-> IF s[i] \in DOMAIN UpperCase THEN UpperCase[s[i]] ELSE s[i]]

RECURSIVE trimStart(_)
trimStart(s) == IF s # <<>> /\ Head(s) = " " THEN trimStart(Tail(s)) ELSE s

RECURSIVE trimEnd(_)
trimEnd(s) ==
    IF s # <<>> /\ s[Len(s)] = " " THEN trimEnd(SubSeq(s, 1, Len(s) - 1)) ELSE s

trim(s) == trimEnd(trimStart(s))

\* String.prototype.indexOf, 1-based; 0 when sub does not occur.
occursAt(s, sub, i) ==
    sub = <<>> \/ (s[i] = sub[1] /\ SubSeq(s, i, i + Len(sub) - 1) = sub)

indexOf(s, sub) ==
    LET hits == {i \in 1..(Len(s) - Len(sub) + 1) : occursAt(s, sub, i)}
    IN IF hits = {} THEN 0 ELSE CHOOSE i \in hits : \A j \in hits : i <= j

includes(s, sub) == \E i \in 1..(Len(s) - Len(sub) + 1) : occursAt(s, sub, i)

\* String.prototype.replace with a string pattern: the first occurrence only.
replace(s, sub, rep) ==
    LET i == indexOf(s, sub)
    IN IF i = 0 THEN s
       ELSE SubSeq(s, 1, i - 1) \o rep \o SubSeq(s, i + Len(sub), Len(s))

\* /^(\w\.?\s?)+$/ (line 11): from position i on, s is a run of groups of a
\* word character, an optional dot and an optional white space.
RECURSIVE acronymGroups(_, _)
acronymGroups(s, i) ==
    /\ i <= Len(s) /\ s[i] \in WordChars
    /\ LET afterDot == IF i + 1 <= Len(s) /\ s[i + 1] = "." THEN {i + 1, i + 2}
                       ELSE {i + 1}
           ends == afterDot \cup {j + 1 : j \in {k \in afterDot : k <= Len(s) /\ s[k] = " "}}
       IN \E j \in ends : j = Len(s) + 1 \/ acronymGroups(s, j)

isAcronymSpelling(s) == acronymGroups(s, 1)

\* .replace(/\./g, ' ')
replaceDots(s) == [i \in DOMAIN s |-> IF s[i] = "." THEN " " ELSE s[i]]

\* .split(/\s+/): the pieces between runs of white space, empty pieces at
\* the two ends included.
RECURSIVE split(_)
split(s) ==
    LET sp == {i \in DOMAIN s : s[i] = " "}
    IN IF sp = {} THEN <<s>>
       ELSE LET i == CHOOSE k \in sp : \A j \in sp : k <= j
            IN <<SubSeq(s, 1, i - 1)>> \o split(trimStart(SubSeq(s, i, Len(s))))

RECURSIVE join(_)
join(ws) ==
    IF ws = <<>> THEN <<>>
    ELSE IF Len(ws) = 1 THEN ws[1]
    ELSE ws[1] \o <<" ">> \o join(Tail(ws))

\* phoneticMap (14-22)
phoneticMap ==
    <<<<<<"e", "s", "s">>, <<"s">>>>,
      <<<<"o", "h">>, <<"o">>>>,
      <<<<"p", "e", "e">>, <<"p">>>>,
      <<<<"s", "e", "e">>, <<"c">>>>,
      <<<<"y", "o", "u">>, <<"u">>>>,
      <<<<"a", "r", "e">>, <<"r">>>>,
      <<<<"k", "a", "y">>, <<"k">>>>>>

phonetic(letter) ==
    LET hits == {i \in DOMAIN phoneticMap : phoneticMap[i][1] = letter}
    IN IF hits = {} THEN letter ELSE phoneticMap[CHOOSE i \in hits : TRUE][2]

\* mishearingMap (37-57), in the order Object.entries lists it
mishearingMap ==
    <<<<<<"s", "a", "h", "p">>,
        <<"s", " ", "o", " ", "p">>>>,
      <<<<"a", "d", "d", " ", "s", "t", "o", "p">>,
        <<"a", "d", "d", " ", "s", "t", "e", "p">>>>,
      <<<<"a", "t", " ", "s", "t", "e", "p">>,
        <<"a", "d", "d", " ", "s", "t", "e", "p">>>>,
      <<<<"a", "d", " ", "s", "t", "e", "p">>,
        <<"a", "d", "d", " ", "s", "t", "e", "p">>>>,
      <<<<"a", "d", "d", " ", "s", "t", "a", "f", "f">>,
        <<"a", "d", "d", " ", "s", "t", "e", "p">>>>,
      <<<<"a", "d", "d", " ", "s", "t", "e", "p", "p">>,
        <<"a", "d", "d", " ", "s", "t", "e", "p">>>>,
      <<<<"a", "d", "d", " ", "m", "a", "t", "e", "r", "i", "a", "l", "s">>,
        <<"a", "d", "d", " ", "m", "a", "t", "e", "r", "i", "a", "l">>>>,
      <<<<"a", "d", " ", "m", "a", "t", "e", "r", "i", "a", "l", "s">>,
        <<"a", "d", "d", " ", "m", "a", "t", "e", "r", "i", "a", "l">>>>,
      <<<<"r", "e", "m", "o", "v", "e", " ", "m", "a", "t", "e", "r", "i", "a", "l", "s">>,
        <<"r", "e", "m", "o", "v", "e", " ", "m", "a", "t", "e", "r", "i", "a", "l">>>>,
      <<<<"d", "e", "l", "e", "t", "e", " ", "m", "a", "t", "e", "r", "i", "a", "l", "s">>,
        <<"r", "e", "m", "o", "v", "e", " ", "m", "a", "t", "e", "r", "i", "a", "l">>>>,
      <<<<"n", "e", "x", "t", " ", "s", "t", "e", "p">>,
        <<"n", "e", "x", "t">>>>,
      <<<<"g", "o", " ", "t", "o", " ", "n", "e", "x", "t">>,
        <<"n", "e", "x", "t">>>>,
      <<<<"g", "o", " ", "n", "e", "x", "t">>,
        <<"n", "e", "x", "t">>>>,
      <<<<"g", "o", " ", "b", "a", "c", "k">>,
        <<"p", "r", "e", "v", "i", "o", "u", "s">>>>,
      <<<<"p", "r", "e", "v", "i", "o", "u", "s", " ", "s", "t", "e", "p">>,
        <<"p", "r", "e", "v", "i", "o", "u", "s">>>>,
      <<<<"g", "o", " ", "t", "o", " ", "p", "r", "e", "v", "i", "o", "u", "s">>,
        <<"p", "r", "e", "v", "i", "o", "u", "s">>>>,
      <<<<"_", "a", "c", "r", "o", "n", "y", "m", "_", "t", "i", "m", "e", "o", "u", "t">>,
        <<"2", "0", "0", "0">>>>>>

\* Object.entries(mishearingMap).forEach (60-64), from entry i on
RECURSIVE applyMishearings(_, _)
applyMishearings(s, i) ==
    IF i > Len(mishearingMap) THEN s
    ELSE applyMishearings(IF includes(s, mishearingMap[i][1])
                          THEN replace(s, mishearingMap[i][1], mishearingMap[i][2])
                          ELSE s, i + 1)

\* the acronym branch (28-34) on the lowered, trimmed command
spellAcronym(lowered) ==
    IF isAcronymSpelling(lowered)
    THEN join([i \in DOMAIN split(replaceDots(lowered)) |->
                  phonetic(split(replaceDots(lowered))[i])])
    ELSE lowered

normalizeCommand(command) ==
    applyMishearings(spellAcronym(trim(toLowerCase(command))), 1)

\* ===================================================================
\* The command pipeline: CommandPauseHandler (commandUtils.ts 128-177),
\* CommandProcessor (src/unnamed/part_013) and the final-result handler of
\* VoiceCommandListener (VoiceCommandListener.tsx 92-157). What the
\* components only display (toasts, recognitionStatus, commandHistory,
\* suggestedCommand) is not part of the state.
\* ===================================================================
pauseTimeoutMs == 5000
\* threshold of fuzzyCommandMatch, 0.7, in tenths
thresholdTenths == 7

\* lastCommand === null. A stored command is a sequence of characters; this
\* one-element sequence is none.
NoCommand == <<NULL>>
NoRecording == [has |-> FALSE, command |-> <<>>, at |-> 0, failed |-> FALSE]

\* JavaScript truthiness of `this.lastCommand` (string | null): null and the
\* empty string are falsy.
truthy(c) == c # NoCommand /\ c # <<>>

\* CommandPauseHandler.updateContext at time t: the value returned and the
\* handler afterwards.
updateContextInclusive(h, command, t) ==
    [ret |-> h.lastCommand # NoCommand /\ t - h.lastTimestamp <= pauseTimeoutMs,
     h |-> [lastCommand |-> command, lastTimestamp |-> t]]

updateContext(h, command, t) ==
    [ret |-> h.lastCommand # NoCommand /\ t - h.lastTimestamp < pauseTimeoutMs,
     h |-> [lastCommand |-> command, lastTimestamp |-> t]]

getCombinedCommand(h, currentCommand, t) ==
    IF truthy(h.lastCommand) /\ t - h.lastTimestamp < pauseTimeoutMs
    THEN h.lastCommand \o <<" ">> \o currentCommand
    ELSE currentCommand

resetContext(h) == [lastCommand |-> NoCommand, lastTimestamp |-> 0]

\* suggestionMap (184-190), in the order Object.entries lists it
suggestionMap ==
    <<[correct |-> <<"a", "d", "d", " ", "s", "t", "e", "p">>,
       mishearings |-> {<<"a", "d", "d", " ", "s", "t", "o", "p">>, <<"a", "t", " ", "s", "t", "e", "p">>, <<"a", "d", " ", "s", "t", "e", "p">>, <<"a", "d", "d", "s", " ", "s", "t", "e", "p">>}],
      [correct |-> <<"a", "d", "d", " ", "m", "a", "t", "e", "r", "i", "a", "l">>,
       mishearings |-> {<<"a", "d", " ", "m", "a", "t", "e", "r", "i", "a", "l">>, <<"a", "d", "d", " ", "m", "a", "t", "e", "r", "i", "a", "l", "s">>, <<"a", "d", " ", "m", "a", "t", "e", "r", "i", "a", "l", "s">>}],
      [correct |-> <<"n", "e", "x", "t">>,
       mishearings |-> {<<"n", "e", "x", "t", " ", "s", "t", "e", "p">>, <<"g", "o", " ", "n", "e", "x", "t">>, <<"g", "o", " ", "t", "o", " ", "n", "e", "x", "t">>}],
      [correct |-> <<"p", "r", "e", "v", "i", "o", "u", "s">>,
       mishearings |-> {<<"g", "o", " ", "b", "a", "c", "k">>, <<"p", "r", "e", "v", "i", "o", "u", "s", " ", "s", "t", "e", "p">>, <<"g", "o", " ", "t", "o", " ", "p", "r", "e", "v", "i", "o", "u", "s">>}],
      [correct |-> <<"s", "a", "v", "e">>,
       mishearings |-> {<<"s", "a", "f", "e">>, <<"s", "a", "v", "e", " ", "i", "t">>, <<"s", "a", "v", "e", " ", "n", "o", "w">>}]>>

getSuggestions(command) ==
    LET hits == {i \in DOMAIN suggestionMap :
                    \E m \in suggestionMap[i].mishearings : includes(command, m)}
    IN IF hits = {} THEN <<>>
       ELSE <<suggestionMap[CHOOSE i \in hits : \A j \in hits : i <= j].correct>>

\* fuzzyCommandMatch (73-89) with the default threshold: matched / length >=
\* 0.7 in integers. An empty keyword list gives 0 / 0, NaN, and NaN >= 0.7 is
\* false.
matchedKeywords(command, keywords) ==
    LET normalizedCommand == normalizeCommand(command)
    IN Cardinality({i \in DOMAIN keywords :
                       includes(normalizedCommand, toLowerCase(keywords[i]))})

fuzzyCommandMatchExclusive(command, keywords) ==
    /\ Len(keywords) > 0
    /\ 10 * matchedKeywords(command, keywords) > thresholdTenths * Len(keywords)

fuzzyCommandMatch(command, keywords) ==
    /\ Len(keywords) > 0
    /\ 10 * matchedKeywords(command, keywords) >= thresholdTenths * Len(keywords)

\* command.match(pattern) is not null. The patterns of the registries below
\* are /text/ and /^text$/.
matches(command, pattern) ==
    IF pattern.anchored THEN command = pattern.text
    ELSE includes(command, pattern.text)

Definition(anchored, text, alternatives, keywords) ==
    [pattern |-> [anchored |-> anchored, text |-> text],
     alternativePatterns |-> alternatives,
     keywords |-> keywords]

\* The registries (registerCommand, part_013 41-43, is called by the host
\* application): none, two commands, and three commands of which the second
\* has ten keywords.
Registries ==
    {<<>>,
     <<Definition(TRUE, <<"n", "e", "x", "t">>, <<>>, <<<<"N", "e", "x", "t">>>>),
       Definition(FALSE, <<"a", "d", "d", " ", "s", "t", "e", "p">>, <<>>, <<<<"a", "d", "d">>, <<"s", "t", "e", "p">>, <<"n", "o", "w">>>>)>>,
     <<Definition(TRUE, <<"l", "i", "s", "t">>, <<>>, <<<<"a", "d", "d">>, <<"s", "t", "e", "p">>, <<"n", "o", "w">>>>),
       Definition(TRUE, <<"s", "p", "e", "l", "l">>, <<>>,
                  <<<<"a">>, <<"d">>, <<"s">>, <<"t">>, <<"e">>, <<"p">>, <<"a", "d">>, <<"x">>, <<"q">>, <<"z">>>>),
       Definition(TRUE, <<"s", "a", "v", "e">>, <<[anchored |-> TRUE, text |-> <<"s", "a", "f", "e">>]>>, <<>>)>>}

\* What the user says: the transcripts handed to the pipeline.
Utterances == {<<>>, <<"n", "e", "x", "t">>, <<"a", "d", "d", " ", "s", "t", "o", "p">>,
               <<"s", "a", "f", "e">>}

\* CommandProcessor.attemptCommandExecution (122-151) on cmds; r is what the
\* invoked handler returns. invoked: the index of the command whose handler
\* ran (0: none); match: it ran with a match object (FALSE: with null).
NoAttempt == [input |-> <<>>, invoked |-> 0, match |-> FALSE, ret |-> FALSE]

\* the two loops: which handler is called, and with a match or with null
dispatch(cmds, command) ==
    LET exact == {i \in DOMAIN cmds :
                    \/ matches(command, cmds[i].pattern)
                    \/ \E j \in DOMAIN cmds[i].alternativePatterns :
                           matches(command, cmds[i].alternativePatterns[j])}
        fuzzy == {i \in DOMAIN cmds : fuzzyCommandMatch(command, cmds[i].keywords)}
    IN IF exact # {}
       THEN [input |-> command, match |-> TRUE, ret |-> TRUE,
             invoked |-> CHOOSE i \in exact : \A j \in exact : i <= j]
       ELSE IF fuzzy # {}
       THEN [input |-> command, match |-> FALSE, ret |-> TRUE,
             invoked |-> CHOOSE i \in fuzzy : \A j \in fuzzy : i <= j]
       ELSE [NoAttempt EXCEPT !.input = command]

\* the attempt d returns what the handler it called returns
returning(d, r) == [d EXCEPT !.ret = d.invoked # 0 /\ r]

attemptCommandExecution(cmds, command, r) == returning(dispatch(cmds, command), r)

\* The record of a call: op and arg, the value returned (ret: a boolean, or
\* the string getCombinedCommand returns), what updateContext returned
\* inside it (continuation), the executions attempted in order, the
\* recording as it was before the call, and the suggestions offered to the
\* user in a toast (offer).
Call(op, arg) ==
    [NoCall EXCEPT !.op = op, !.arg = arg, !.before = recording]

\* failed: the command was recorded for an utterance whose dispatch failed
Recorded(command, failed) ==
    [has |-> TRUE, command |-> command, at |-> now, failed |-> failed]

\* What a handler can return; FALSE stands for a handler that is not called.
HandlerReturns(called) == IF called THEN BOOLEAN ELSE {FALSE}

\* CommandProcessor.processCommand (63-116); r1 and r2 are what the handlers
\* return in the combined and in the regular attempt.
ProcessCommandBody(rawCommand) ==
    LET originalCommand == trim(rawCommand)
        u == updateContext(pauseHandler, originalCommand, now)
        combinedCommand == getCombinedCommand(u.h, originalCommand, now)
        combinedDispatch == dispatch(commands, combinedCommand)
        normalizedCommand == normalizeCommand(originalCommand)
        regularDispatch == dispatch(commands, normalizedCommand)
        c == [Call("processCommand", rawCommand) EXCEPT !.continuation = u.ret]
    IN \E r1 \in HandlerReturns(u.ret /\ combinedDispatch.invoked # 0),
          r2 \in HandlerReturns(regularDispatch.invoked # 0) :
        LET combined == returning(combinedDispatch, r1)
            regular == returning(regularDispatch, r2)
        IN IF u.ret /\ combined.ret
           THEN /\ pauseHandler' = resetContext(u.h)
                /\ recording' = NoRecording
                /\ call' = [c EXCEPT !.ret = TRUE, !.attempts = <<combined>>]
                /\ UNCHANGED processor
           ELSE /\ pauseHandler' = u.h
                /\ recording' = Recorded(originalCommand, ~regular.ret)
                /\ call' = [c EXCEPT !.ret = regular.ret,
                                     !.attempts = IF u.ret THEN <<combined, regular>>
                                                  ELSE <<regular>>,
                                     !.offer = IF regular.ret THEN <<>>
                                               ELSE getSuggestions(normalizedCommand)]
                /\ processor' = IF regular.ret THEN processor
                                ELSE [lastCommand |-> originalCommand,
                                      lastSuggestions |-> getSuggestions(normalizedCommand)]

Untouched ==
    UNCHANGED <<recognition, isListening, isInitialized, finalResults,
                targetField, currentCallback, processingTimeout,
                autoStopTimeout, lastActivityTimestamp, retryCount, engines,
                timers, now, timed, ticks, supported, session, unknownRetries,
                listenSince, quiet, backoffs, last, component, commands, editor>>

ProcessCommand ==
    /\ component = "CommandProcessor"
    /\ \E rawCommand \in Utterances : ProcessCommandBody(rawCommand)
    /\ Untouched

\* CommandProcessor.acceptSuggestion (168-173)
AcceptSuggestion ==
    /\ component = "CommandProcessor"
    /\ IF processor.lastSuggestions # <<>>
       THEN ProcessCommandBody(processor.lastSuggestions[1])
       ELSE /\ call' = Call("acceptSuggestion", <<>>)
            /\ UNCHANGED <<pauseHandler, processor, recording>>
    /\ Untouched

\* CommandProcessor.reset (178-182)
Reset ==
    /\ component = "CommandProcessor"
    /\ pauseHandler' = resetContext(pauseHandler)
    /\ processor' = [lastCommand |-> <<>>, lastSuggestions |-> <<>>]
    /\ recording' = NoRecording
    /\ call' = Call("reset", <<>>)
    /\ Untouched

\* recognition.onresult of VoiceCommandListener (92-157) for a well-formed
\* event; success is what the onCommandReceived prop returns.
OnResult ==
    /\ component = "VoiceCommandListener"
    /\ \E spoken \in Utterances, isFinal \in BOOLEAN :
       \E success \in HandlerReturns(isFinal) :
        LET transcript == toLowerCase(spoken)
            normalizedCommand == normalizeCommand(transcript)
            u == updateContext(pauseHandler, normalizedCommand, now)
            commandToProcess == IF u.ret
                                THEN getCombinedCommand(u.h, normalizedCommand, now)
                                ELSE normalizedCommand
            c == Call("onresult", spoken)
        IN IF ~isFinal
           THEN /\ call' = [c EXCEPT !.op = "onresult interim"]
                /\ UNCHANGED <<pauseHandler, recording>>
           ELSE /\ pauseHandler' = IF success THEN resetContext(u.h) ELSE u.h
                /\ recording' = IF success THEN NoRecording
                                ELSE Recorded(normalizedCommand, TRUE)
                /\ call' = [c EXCEPT !.continuation = u.ret, !.ret = success,
                                     !.str = commandToProcess,
                                     !.offer = IF success THEN <<>>
                                               ELSE getSuggestions(transcript)]
    /\ UNCHANGED processor
    /\ Untouched

\* The pause timer set by recognition.onspeechend (159-175) in continuous
\* mode fires, five seconds after the speech ended.
PauseTimeout ==
    /\ component = "VoiceCommandListener"
    /\ now >= pauseTimeoutMs
    /\ pauseHandler' = resetContext(pauseHandler)
    /\ recording' = NoRecording
    /\ call' = Call("pauseTimeout", <<>>)
    /\ UNCHANGED processor
    /\ Untouched

\* A client of CommandPauseHandler calls its three methods.
UpdateContext ==
    /\ component = "CommandPauseHandler"
    /\ \E command \in Utterances :
        LET u == updateContext(pauseHandler, command, now)
        IN /\ pauseHandler' = u.h
           /\ recording' = Recorded(command, FALSE)
           /\ call' = [Call("updateContext", command) EXCEPT
                          !.continuation = u.ret, !.ret = u.ret]
    /\ UNCHANGED processor
    /\ Untouched

GetCombinedCommand ==
    /\ component = "CommandPauseHandler"
    /\ \E currentCommand \in Utterances :
           call' = [Call("getCombinedCommand", currentCommand) EXCEPT
                       !.str = getCombinedCommand(pauseHandler, currentCommand, now)]
    /\ UNCHANGED <<pauseHandler, processor, recording>>
    /\ Untouched

ResetContext ==
    /\ component = "CommandPauseHandler"
    /\ pauseHandler' = resetContext(pauseHandler)
    /\ recording' = NoRecording
    /\ call' = Call("resetContext", <<>>)
    /\ UNCHANGED processor
    /\ Untouched

\* The user pauses: Date.now() moves on by a millisecond or by one short of
\* the pause timeout.
MaxPauses == 3
PauseSteps == {1, pauseTimeoutMs - 1}

Pause ==
    /\ ticks < MaxPauses
    /\ \E d \in PauseSteps : now' = now + d
    /\ ticks' = ticks + 1
    /\ UNCHANGED <<recognition, isListening, isInitialized, finalResults,
                   targetField, currentCallback, processingTimeout,
                   autoStopTimeout, lastActivityTimestamp, retryCount, engines,
                   timers, timed, supported, session, unknownRetries,
                   listenSince, quiet, backoffs, last>>
    /\ call' = Call("pause", <<>>)
    /\ UNCHANGED <<component, commands, pauseHandler, processor, recording, editor>>

Components == {"CommandProcessor", "VoiceCommandListener", "CommandPauseHandler"}

InitCommands ==
    /\ Fresh /\ supported /\ timed = TRUE /\ quiet = FALSE
    /\ Constructed /\ NoEditor /\ call = NoCall
    /\ component \in Components
    /\ commands \in IF component = "CommandProcessor" THEN Registries ELSE {<<>>}

NextCommands ==
    \/ ProcessCommand \/ AcceptSuggestion \/ Reset
    \/ OnResult \/ PauseTimeout
    \/ UpdateContext \/ GetCombinedCommand \/ ResetContext
    \/ Pause

SpecCommands == InitCommands /\ [][NextCommands]_vars

\* ------------------------------------------------ normalizeCommand applied
\* A caller normalizes a transcript and normalizes the result once more. The
\* transcripts are one phrase or two phrases separated by a space.
Phrases ==
    {<<"a", "d", "d", " ", "s", "t", "o", "p">>,
     <<"n", "e", "x", "t", " ", "s", "t", "e", "p">>,
     <<"g", "o", " ", "t", "o">>,
     <<"a", ".">>,
     <<"s", "a", "h", "p">>,
     <<"s", ".", "o", ".", "p">>,
     <<"y", "o", "u">>,
     <<"S", "a", "v", "e">>}
Transcripts == Phrases \cup {p \o <<" ">> \o q : p, q \in Phrases}

InitNormalize ==
    /\ Fresh /\ supported /\ timed = TRUE /\ quiet = FALSE
    /\ Constructed /\ NoEditor /\ component = NULL /\ commands = <<>>
    /\ \E x \in Transcripts : call = [NoCall EXCEPT !.op = "transcript", !.arg = x]

NormalizeCommand ==
    /\ call.op = "transcript"
    /\ call' = [call EXCEPT !.op = "normalizeCommand",
                            !.str = normalizeCommand(call.arg)]
    /\ UNCHANGED <<pauseHandler, processor, recording>>
    /\ Untouched

NormalizeAgain ==
    /\ call.op = "normalizeCommand"
    /\ call' = [call EXCEPT !.op = "normalizeCommand again",
                            !.arg = call.str,
                            !.str = normalizeCommand(call.str)]
    /\ UNCHANGED <<pauseHandler, processor, recording>>
    /\ Untouched

NextNormalize == NormalizeCommand \/ NormalizeAgain

SpecNormalize == InitNormalize /\ [][NextNormalize]_vars

\* ===================================================================
\* EnhancedMaterials (src/unnamed/part_005, 516-772): the materials list
\* and its voice command handler processVoiceCommand.
\* ===================================================================
\* --- the regular expressions of processVoiceCommand (566-572). A pattern is
\* a sequence of elements: alt (one of the literals, in order), opt (the same,
\* or nothing), item (\d+|last|\w+), number (\d+(?:\.\d+)?), word (\w+),
\* rest (.+) and optrest (?:\s+(.+))?. Every capturing element captures.
Alt(a) == [t |-> "alt", a |-> a]
Opt(a) == [t |-> "opt", a |-> a]
El(t) == [t |-> t, a |-> <<>>]

RECURSIVE runLength(_, _, _)
\* how many characters of s from position i on are in set
runLength(s, i, set) ==
    IF i <= Len(s) /\ s[i] \in set THEN 1 + runLength(s, i + 1, set) ELSE 0

startsWith(s, i, lit) ==
    i + Len(lit) - 1 <= Len(s) /\ SubSeq(s, i, i + Len(lit) - 1) = lit

\* the ends n, n-1, ..., 1 characters after i, longest first
Greedy(i, n, cap) == [j \in 1..n |-> [end |-> i + n - j + 1, cap |-> cap, from |-> i]]

\* The ways element e can match s at i, in the order the engine tries them:
\* end is the position after the match, cap whether from..end-1 is captured.
candidates(s, i, e) ==
    LET digits == runLength(s, i, Digits)
        word == runLength(s, i, WordChars)
        spaces == runLength(s, i, {" "})
        literals == [j \in DOMAIN e.a |->
                        IF startsWith(s, i, e.a[j])
                        THEN <<[end |-> i + Len(e.a[j]), cap |-> FALSE, from |-> i]>>
                        ELSE <<>>]
        RECURSIVE flat(_)
        flat(k) == IF k > Len(literals) THEN <<>> ELSE literals[k] \o flat(k + 1)
        nothing == <<[end |-> i, cap |-> FALSE, from |-> i]>>
    IN CASE e.t = "alt" -> flat(1)
         [] e.t = "opt" -> flat(1) \o nothing
         [] e.t = "item" ->
                Greedy(i, digits, TRUE)
                    \o (IF startsWith(s, i, <<"l", "a", "s", "t">>)
                        THEN <<[end |-> i + 4, cap |-> TRUE, from |-> i]>> ELSE <<>>)
                    \o Greedy(i, word, TRUE)
         [] e.t = "number" ->
                (IF digits > 0 /\ startsWith(s, i + digits, <<".">>)
                 THEN Greedy(i, digits + 1 + runLength(s, i + digits + 1, Digits), TRUE)
                 ELSE Greedy(i, digits, TRUE))
         [] e.t = "word" -> Greedy(i, word, TRUE)
         [] e.t = "rest" -> Greedy(i, Len(s) - i + 1, TRUE)
         [] e.t = "optrest" ->
                (IF spaces > 0 /\ i + spaces <= Len(s)
                 THEN <<[end |-> Len(s) + 1, cap |-> TRUE, from |-> i + spaces]>>
                 ELSE IF spaces > 1
                 THEN <<[end |-> Len(s) + 1, cap |-> TRUE, from |-> i + spaces - 1]>>
                 ELSE <<>>)
                    \o <<[end |-> i, cap |-> TRUE, from |-> i]>>

NoMatch == [ok |-> FALSE, caps |-> <<>>]

\* Elements k.. of pat match s from position i: the first way, in the
\* engine's order, for which the rest of the pattern matches too. caps are the
\* captured ranges [from, to), an empty range for a group that did not take
\* part.
RECURSIVE matchFrom(_, _, _, _), firstMatch(_, _, _, _, _)
matchFrom(s, i, pat, k) ==
    IF k > Len(pat) THEN [ok |-> TRUE, caps |-> <<>>]
    ELSE firstMatch(s, pat, k, candidates(s, i, pat[k]), 1)

\* the ways cs of element k from the j-th on, tried in order
firstMatch(s, pat, k, cs, j) ==
    IF j > Len(cs) THEN NoMatch
    ELSE LET tail == matchFrom(s, cs[j].end, pat, k + 1)
         IN IF tail.ok
            THEN [ok |-> TRUE,
                  caps |-> (IF cs[j].cap
                            THEN <<[from |-> cs[j].from, to |-> cs[j].end]>>
                            ELSE <<>>) \o tail.caps]
            ELSE firstMatch(s, pat, k, cs, j + 1)

RECURSIVE matchAt(_, _, _)
\* the leftmost match that starts at i or later
matchAt(s, i, pat) ==
    IF i > Len(s) + 1 THEN NoMatch
    ELSE LET m == matchFrom(s, i, pat, 1)
         IN IF m.ok THEN m ELSE matchAt(s, i + 1, pat)

\* command.match(pattern) with the i flag: the leftmost match; the groups
\* are cut from command itself.
match(command, pat) ==
    LET m == matchAt(toLowerCase(command), 1, pat)
    IN [ok |-> m.ok,
        groups |-> [g \in DOMAIN m.caps |->
                       SubSeq(command, m.caps[g].from, m.caps[g].to - 1)]]

MaterialWords ==
    <<<<"m", "a", "t", "e", "r", "i", "a", "l">>, <<"m", "a", "t", "e", "r", "i", "a", "l", "s">>, <<"i", "t", "e", "m">>, <<"i", "t", "e", "m", "s">>, <<"i", "n", "g", "r", "e", "d", "i", "e", "n", "t">>, <<"i", "n", "g", "r", "e", "d", "i", "e", "n", "t", "s">>,
      <<"s", "u", "p", "p", "l", "y">>, <<"s", "u", "p", "p", "l", "i", "e", "s">>>>
SaveWords ==
    <<<<"m", "a", "t", "e", "r", "i", "a", "l", "s">>, <<"m", "a", "t", "e", "r", "i", "a", "l">>, <<"i", "t", "e", "m", "s">>, <<"i", "t", "e", "m">>, <<"i", "n", "g", "r", "e", "d", "i", "e", "n", "t", "s">>, <<"i", "n", "g", "r", "e", "d", "i", "e", "n", "t">>,
      <<"s", "u", "p", "p", "l", "i", "e", "s">>, <<"s", "u", "p", "p", "l", "y">>, <<"c", "h", "a", "n", "g", "e", "s">>, <<"a", "l", "l">>>>
ForWords == <<<<"f", "o", "r">>, <<"t", "o">>, <<"o", "n">>, <<"i", "n">>, <<"o", "f">>>>
SetWords == <<<<"s", "e", "t">>, <<"c", "h", "a", "n", "g", "e">>, <<"m", "a", "k", "e">>, <<"u", "p", "d", "a", "t", "e">>>>
Sp == Alt(<<<<" ">>>>)

addMaterialPattern ==
    <<Alt(<<<<"a", "d", "d">>, <<"c", "r", "e", "a", "t", "e">>, <<"n", "e", "w">>, <<"a", "d">>, <<"a", "t">>, <<"p", "u", "t">>, <<"i", "n", "s", "e", "r", "t">>>>), Sp,
      Alt(MaterialWords), El("optrest")>>
removeMaterialPattern ==
    <<Alt(<<<<"r", "e", "m", "o", "v", "e">>, <<"d", "e", "l", "e", "t", "e">>, <<"e", "l", "i", "m", "i", "n", "a", "t", "e">>, <<"g", "e", "t", " ", "r", "i", "d", " ", "o", "f">>>>), Sp,
      Alt(MaterialWords), Sp, El("item")>>
setQuantityPattern ==
    <<Alt(SetWords), Sp,
      Alt(<<<<"q", "u", "a", "n", "t", "i", "t", "y">>, <<"a", "m", "o", "u", "n", "t">>, <<"n", "u", "m", "b", "e", "r">>, <<"h", "o", "w", " ", "m", "u", "c", "h">>, <<"h", "o", "w", " ", "m", "a", "n", "y">>>>), Sp,
      Opt(<<<<"t", "o", " ">>, <<"o", "f", " ">>, <<"i", "s", " ">>, <<"a", "s", " ">>>>), El("number"), Sp,
      Alt(ForWords), Sp, Alt(MaterialWords), Sp, El("item")>>
setUnitPattern ==
    <<Alt(SetWords), Sp,
      Alt(<<<<"u", "n", "i", "t">>, <<"u", "n", "i", "t", "s">>, <<"m", "e", "a", "s", "u", "r", "e", "m", "e", "n", "t">>, <<"m", "e", "a", "s", "u", "r", "e">>>>), Sp,
      Opt(<<<<"t", "o", " ">>, <<"i", "s", " ">>, <<"a", "s", " ">>>>), El("word"), Sp,
      Alt(ForWords), Sp, Alt(MaterialWords), Sp, El("item")>>
setNamePattern ==
    <<Alt(<<<<"s", "e", "t">>, <<"c", "h", "a", "n", "g", "e">>, <<"m", "a", "k", "e">>, <<"r", "e", "n", "a", "m", "e">>, <<"u", "p", "d", "a", "t", "e">>, <<"c", "a", "l", "l">>>>), Sp,
      Alt(<<<<"n", "a", "m", "e">>, <<"t", "i", "t", "l", "e">>, <<"l", "a", "b", "e", "l">>>>), Sp,
      Opt(<<<<"t", "o", " ">>, <<"i", "s", " ">>, <<"a", "s", " ">>>>), El("rest"), Sp,
      Alt(ForWords), Sp, Alt(MaterialWords), Sp, El("item")>>
savePattern ==
    <<Alt(<<<<"s", "a", "v", "e">>, <<"u", "p", "d", "a", "t", "e">>, <<"s", "t", "o", "r", "e">>, <<"s", "u", "b", "m", "i", "t">>, <<"k", "e", "e", "p">>, <<"r", "e", "c", "o", "r", "d">>, <<"d", "o", "n", "e", " ", "w", "i", "t", "h">>>>), Sp,
      Alt(SaveWords)>>
toggleContinuousPattern ==
    <<Alt(<<<<"t", "o", "g", "g", "l", "e">>, <<"s", "w", "i", "t", "c", "h">>, <<"c", "h", "a", "n", "g", "e">>, <<"f", "l", "i", "p">>>>), Sp,
      Alt(<<<<"c", "o", "n", "t", "i", "n", "u", "o", "u", "s">>, <<"a", "l", "w", "a", "y", "s", " ", "l", "i", "s", "t", "e", "n", "i", "n", "g">>, <<"l", "i", "s", "t", "e", "n", "i", "n", "g", " ", "m", "o", "d", "e">>, <<"c", "o", "n", "t", "i", "n", "u", "o", "u", "s", " ", "m", "o", "d", "e">>>>)>>

\* parseInt(str): the number its leading digits spell, -1 for NaN (the
\* strings parsed here carry no sign and no leading white space).
DigitValue(c) == CHOOSE d \in 0..9 : ToString(d) = c

RECURSIVE digitsValue(_, _)
digitsValue(s, n) ==
    IF n = 0 THEN 0 ELSE 10 * digitsValue(s, n - 1) + DigitValue(s[n])

parseInt(str) ==
    LET n == runLength(str, 1, Digits)
    IN IF n = 0 THEN -1 ELSE digitsValue(str, n)

\* getMaterialIndex (576-593), 0-based, -1 for none
getMaterialIndex(list, indexStr) ==
    LET named == {i \in DOMAIN list :
                    includes(toLowerCase(list[i].name), toLowerCase(indexStr))}
    IN IF toLowerCase(indexStr) = <<"l", "a", "s", "t">> THEN Len(list) - 1
       ELSE IF parseInt(indexStr) # -1 THEN parseInt(indexStr) - 1
       ELSE IF named = {} THEN -1
       ELSE (CHOOSE i \in named : \A j \in named : i <= j) - 1

\* Math.random().toString(36).substring(2): an id no material has
FreshId(list) ==
    CHOOSE n \in 1..(Len(list) + 1) : \A i \in DOMAIN list : list[i].id # n

Material(id, name) == [id |-> id, name |-> name, quantity |-> <<>>, unit |-> <<>>]

\* removeMaterial (704-706) and updateMaterial (709-713)
removeMaterial(list, id) == SelectSeq(list, LAMBDA m : m.id # id)
updateMaterial(list, id, field, value) ==
    [i \in DOMAIN list |->
        IF list[i].id = id THEN [list[i] EXCEPT ![field] = value] ELSE list[i]]

\* processVoiceCommand (561-686) on the editor state ed: the value returned
\* and the editor afterwards (saved: handleSave was called).
processVoiceCommand(ed, command) ==
    LET list == ed.materials
        add == match(command, addMaterialPattern)
        remove == match(command, removeMaterialPattern)
        quantity == match(command, setQuantityPattern)
        unit == match(command, setUnitPattern)
        name == match(command, setNamePattern)
        Update(field, value, indexStr) ==
            LET index == getMaterialIndex(list, indexStr)
            IN IF value # <<>> /\ indexStr # <<>>
               THEN IF index >= 0 /\ index < Len(list)
                    THEN [ret |-> TRUE, saved |-> FALSE,
                          ed |-> [ed EXCEPT !.materials =
                                    updateMaterial(list, list[index + 1].id, field, value)]]
                    ELSE [ret |-> FALSE, saved |-> FALSE, ed |-> ed]
               ELSE [ret |-> FALSE, saved |-> FALSE, ed |-> ed]
    IN IF add.ok
       THEN [ret |-> TRUE, saved |-> FALSE,
             ed |-> [ed EXCEPT !.materials =
                        Append(list, Material(FreshId(list), trim(add.groups[1])))]]
       ELSE IF remove.ok
       THEN LET index == getMaterialIndex(list, remove.groups[1])
            IN IF index >= 0 /\ index < Len(list)
               THEN [ret |-> TRUE, saved |-> FALSE,
                     ed |-> [ed EXCEPT !.materials =
                                removeMaterial(list, list[index + 1].id)]]
               ELSE [ret |-> FALSE, saved |-> FALSE, ed |-> ed]
       ELSE IF quantity.ok
       THEN Update("quantity", quantity.groups[1], quantity.groups[2])
       ELSE IF unit.ok
       THEN Update("unit", unit.groups[1], unit.groups[2])
       ELSE IF name.ok
       THEN Update("name", name.groups[1], name.groups[2])
       ELSE IF match(command, savePattern).ok
       THEN [ret |-> TRUE, saved |-> TRUE, ed |-> ed]
       ELSE IF match(command, toggleContinuousPattern).ok
       THEN [ret |-> TRUE, saved |-> FALSE,
             ed |-> [ed EXCEPT !.continuousMode = ~ed.continuousMode]]
       ELSE [ret |-> FALSE, saved |-> FALSE, ed |-> ed]

\* What the user says to the materials editor: the command, and what it asks
\* for (kind, the item argument spoken, the value to set).
Said(text, kind, item, value) ==
    [text |-> text, kind |-> kind, item |-> item, value |-> value]
MaterialCommands ==
    {Said(<<"r", "e", "m", "o", "v", "e", " ", "m", "a", "t", "e", "r", "i", "a", "l", " ", "l", "a", "s", "t">>, "remove", <<"l", "a", "s", "t">>, <<>>),
     Said(<<"r", "e", "m", "o", "v", "e", " ", "m", "a", "t", "e", "r", "i", "a", "l", " ", "1">>, "remove", <<"1">>, <<>>),
     Said(<<"d", "e", "l", "e", "t", "e", " ", "i", "t", "e", "m", " ", "3">>, "remove", <<"3">>, <<>>),
     Said(<<"r", "e", "m", "o", "v", "e", " ", "m", "a", "t", "e", "r", "i", "a", "l", " ", "4">>, "remove", <<"4">>, <<>>),
     Said(<<"r", "e", "m", "o", "v", "e", " ", "m", "a", "t", "e", "r", "i", "a", "l", " ", "0">>, "remove", <<"0">>, <<>>),
     Said(<<"r", "e", "m", "o", "v", "e", " ", "m", "a", "t", "e", "r", "i", "a", "l", " ", "g", "l", "u", "e">>, "remove", <<"g", "l", "u", "e">>, <<>>),
     Said(<<"r", "e", "m", "o", "v", "e", " ", "m", "a", "t", "e", "r", "i", "a", "l", " ", "n", "a", "i", "l", "s">>, "remove", <<"n", "a", "i", "l", "s">>, <<>>),
     Said(<<"r", "e", "m", "o", "v", "e", " ", "m", "a", "t", "e", "r", "i", "a", "l", " ", "2", "x", "4">>, "remove", <<"2", "x", "4">>, <<>>),
     Said(<<"s", "e", "t", " ", "q", "u", "a", "n", "t", "i", "t", "y", " ", "t", "o", " ", "5", " ", "f", "o", "r", " ", "m", "a", "t", "e", "r", "i", "a", "l", " ", "2">>, "quantity", <<"2">>, <<"5">>),
     Said(<<"s", "e", "t", " ", "u", "n", "i", "t", " ", "t", "o", " ", "k", "g", " ", "f", "o", "r", " ", "i", "t", "e", "m", " ", "l", "a", "s", "t">>, "unit", <<"l", "a", "s", "t">>, <<"k", "g">>),
     Said(<<"s", "e", "t", " ", "n", "a", "m", "e", " ", "t", "o", " ", "o", "a", "k", " ", "f", "o", "r", " ", "m", "a", "t", "e", "r", "i", "a", "l", " ", "w", "o", "o", "d">>, "name", <<"w", "o", "o", "d">>, <<"o", "a", "k">>),
     Said(<<"a", "d", "d", " ", "m", "a", "t", "e", "r", "i", "a", "l">>, "add", <<>>, <<>>),
     Said(<<"a", "d", "d", " ", "m", "a", "t", "e", "r", "i", "a", "l", " ", "n", "a", "i", "l", "s">>, "add", <<>>, <<"n", "a", "i", "l", "s">>),
     Said(<<"s", "a", "v", "e", " ", "m", "a", "t", "e", "r", "i", "a", "l", "s">>, "save", <<>>, <<>>),
     Said(<<"t", "o", "g", "g", "l", "e", " ", "c", "o", "n", "t", "i", "n", "u", "o", "u", "s", " ", "m", "o", "d", "e">>, "toggle", <<>>, <<>>),
     Said(<<"h", "e", "l", "l", "o">>, "none", <<>>, <<>>)}

\* The lists parsed from initialMaterials (526-557)
InitialMaterials ==
    {<<>>,
     <<Material(1, <<"w", "o", "o", "d">>)>>,
     <<Material(1, <<"w", "o", "o", "d">>), Material(2, <<"2", "x", "4", " ", "b", "o", "a", "r", "d">>), Material(3, <<"W", "o", "o", "d", " ", "g", "l", "u", "e">>)>>}

MaxCommands == 2

Elsewhere ==
    UNCHANGED <<recognition, isListening, isInitialized, finalResults,
                targetField, currentCallback, processingTimeout,
                autoStopTimeout, lastActivityTimestamp, retryCount, engines,
                timers, now, timed, supported, session, unknownRetries,
                listenSince, quiet, backoffs, last, component, commands,
                pauseHandler, processor, recording>>

\* VoiceCommandListener hands a command to onCommandReceived (762).
ProcessVoiceCommand ==
    /\ ticks < MaxCommands
    /\ \E said \in MaterialCommands :
        LET r == processVoiceCommand(editor, said.text)
        IN /\ editor' = r.ed
           /\ call' = [Call("processVoiceCommand", said.text) EXCEPT
                          !.ret = r.ret, !.intent = said,
                          !.saved = r.saved, !.old = editor.materials]
    /\ ticks' = ticks + 1
    /\ Elsewhere

\* the buttons of MaterialsManager and VoiceCommandControls (742-756)
AddMaterial ==
    /\ ticks < MaxCommands
    /\ editor' = [editor EXCEPT !.materials =
                     Append(@, Material(FreshId(@), <<>>))]
    /\ call' = [Call("addMaterial", <<>>) EXCEPT !.old = editor.materials]
    /\ ticks' = ticks + 1
    /\ Elsewhere

RemoveMaterial ==
    /\ ticks < MaxCommands
    /\ \E i \in DOMAIN editor.materials :
           editor' = [editor EXCEPT !.materials = removeMaterial(@, @[i].id)]
    /\ call' = [Call("removeMaterial", <<>>) EXCEPT !.old = editor.materials]
    /\ ticks' = ticks + 1
    /\ Elsewhere

ToggleContinuousMode ==
    /\ ticks < MaxCommands
    /\ editor' = [editor EXCEPT !.continuousMode = ~@]
    /\ call' = [Call("toggleContinuousMode", <<>>) EXCEPT !.old = editor.materials]
    /\ ticks' = ticks + 1
    /\ Elsewhere

InitMaterials ==
    /\ Fresh /\ supported /\ timed = TRUE /\ quiet = FALSE
    /\ Constructed /\ call = NoCall
    /\ component = "EnhancedMaterials" /\ commands = <<>>
    /\ \E list \in InitialMaterials :
           editor = [materials |-> list, continuousMode |-> FALSE]

NextMaterials ==
    ProcessVoiceCommand \/ AddMaterial \/ RemoveMaterial \/ ToggleContinuousMode

SpecMaterials == InitMaterials /\ [][NextMaterials]_vars

\* ------------------------------------------------------------------ claims
EngineEvents == {"start", "result", "speechend", "error", "end"}
RetryKinds == {"noSpeech", "aborted", "retryLogged", "endRestart", "endBackoff",
               "recreated", "recreatedOrGiveUp"}
StartedEngines == {e \in 1..MaxEngines : engines[e].st \in Started}

\* C1: in every reachable state at most one engine object is started and
\* not yet stopped.
C1_AtMostOneEngineStarted == Cardinality(StartedEngines) <= 1

\* C2: a deferred start whose session was stopped before it ran (and no new
\* startListening was accepted since) neither calls engine start() nor
\* leaves isListening true.
C2_PendingStartSuppressed ==
    (last.op = "timer" /\ last.kind = "start" /\ last.stale /\ session = NULL)
        => (~isListening /\ ~last.startCalled)

\* C3: a retry or restart callback that was scheduled before a stopListening
\* or stopAll never calls engine start().
C3_NoStaleRetryStarts ==
    (last.op = "timer" /\ last.kind \in RetryKinds /\ last.stale)
        => ~last.startCalled

\* C4: after stopAll no engine is started and the handle is discarded.
C4_StopAllReleases ==
    last.op = "stopAll" => (recognition = 0 /\ StartedEngines = {})

\* C5: a startListening for the target of the session that was accepted and
\* not stopped since schedules no further engine start.
C5_SecondStartIsNoOp ==
    (last.op = "startListening" /\ last.again) => last.sched = 0

\* C6: with no session accepted since the stop, an event of the engine that
\* stopListening stopped does not set isListening, schedules no timer and
\* invokes no callback.
C6_LateEventsIgnored ==
    (last.op \in EngineEvents /\ last.engSt \in {"stopping", "stopStarting"}
        /\ session = NULL)
        => (last.sched = 0 /\ ~last.cbInvoked /\ (isListening => last.wasListening))

\* C7: a no-speech or aborted error while listening either schedules a retry,
\* counts it in retryCount and keeps the session listening, or (the retry
\* budget exceeded) schedules nothing and leaves the listening state.
C7_TransientErrorRetriesOrStops ==
    (last.op = "error" /\ last.kind \in {"no-speech", "aborted"} /\ last.wasListening)
        => \/ last.sched = 1 /\ isListening /\ retryCount >= 1
           \/ last.sched = 0 /\ ~isListening

\* C8: a fatal error while listening stops the session inside the error
\* handler and schedules no timer, and the end event that follows schedules
\* no restart and leaves the session stopped.
C8_FatalErrorStops ==
    /\ (last.op = "error" /\ last.kind \in FatalErrors /\ last.wasListening)
        => (~isListening /\ targetField = NULL /\ last.sched = 0
            /\ processingTimeout = NoTimer /\ autoStopTimeout = NoTimer)
    /\ (last.op = "end" /\ last.engSt = "endingFatal")
        => (~isListening /\ last.sched = 0)

C8_Witness == last.op = "end" /\ last.engSt = "endingFatal" /\ ~isListening

\* C9: an unknown error in a listening session that has already scheduled
\* its one unknown-error retry stops the session and schedules no retry.
C9_OneUnknownRetry ==
    (last.op = "error" /\ last.kind = "bad-grammar" /\ last.wasListening /\ last.again)
        => (~isListening /\ last.sched = 0)

\* C10: no session is still listening more than maxListeningDuration after
\* isListening became true.
C10_MaxListeningDuration ==
    (timed /\ isListening) => now - listenSince <= maxListeningDuration

\* C11: a listening session never goes longer than maxSilenceDuration
\* without activity (start, speech start or end, result), and a final result
\* leaves the maximum-duration timer armed.
C11_SilenceStopsIndependently ==
    /\ (timed /\ isListening) => now - lastActivityTimestamp <= maxSilenceDuration
    /\ (timed /\ last.op = "result" /\ last.kind = "final" /\ isListening)
        => autoStopTimeout # NoTimer

\* C12: after the page was hidden or unloaded no engine is started, the
\* service is not listening and no accepted session is left standing (one
\* whose deferred start is still pending included).
C12_PageHiddenTearsDown ==
    last.op \in {"visibilitychange", "beforeunload"}
        => (StartedEngines = {} /\ ~isListening /\ session = NULL)

\* C13: stopListening called while no session is active (not listening, no
\* accepted session, no callback pending) returns true, calls no engine
\* stop(), schedules nothing and leaves the service idle with no timer
\* pending; a stopListening right after a stopListening changes nothing.
ServiceIdle ==
    /\ ~isListening /\ session = NULL /\ timers = EmptyBag

C13_IdleStopStep ==
    /\ (last'.op = "stopListening" /\ ServiceIdle)
        => /\ ServiceIdle'
           /\ last'.ret /\ ~last'.stopIssued /\ last'.sched = 0
           /\ engines' = engines /\ recognition' = recognition
           /\ processingTimeout' = NoTimer /\ autoStopTimeout' = NoTimer
           /\ targetField' = NULL /\ currentCallback' = NULL
    /\ (last'.op = "stopListening" /\ last.op = "stopListening")
        => UNCHANGED <<recognition, isListening, isInitialized, finalResults,
                       targetField, currentCallback, processingTimeout,
                       autoStopTimeout, lastActivityTimestamp, retryCount,
                       engines, timers, session>>

C14_BackoffGrows ==
    \A n \in 1..Len(backoffs) :
        /\ backoffs[n] >= BackoffDelay(n)
        /\ backoffs[n] < BackoffDelay(n) + jitterRange
        /\ n > 1 => backoffs[n] > backoffs[n - 1]

\* C15: in the command pipeline (CommandProcessor.processCommand and the
\* final-result handler of VoiceCommandListener) the pause context is
\* cleared after an utterance was dispatched successfully, so that the next
\* utterance is taken standalone, and it is kept after a failed dispatch.
C15_ContextClearedAfterSuccess ==
    call.op \in {"processCommand", "onresult"}
        => /\ call.ret => (pauseHandler.lastCommand = NoCommand /\ ~recording.has)
           /\ ~call.ret => (pauseHandler.lastCommand # NoCommand /\ recording.has)

\* C16: updateContext(c) returns true exactly when a command has been
\* recorded since construction or the last resetContext and strictly fewer
\* than pauseTimeoutMs milliseconds have passed since that recording (the
\* most recent one); whatever it returns, it records c and the current time;
\* the first updateContext after a resetContext returns false.
C16_UpdateContextContract ==
    /\ call.op \in {"updateContext", "processCommand", "onresult"}
        => call.continuation
               = (call.before.has /\ now - call.before.at < pauseTimeoutMs)
    /\ call.op = "updateContext"
        => /\ call.ret = call.continuation
           /\ pauseHandler = [lastCommand |-> call.arg, lastTimestamp |-> now]

\* a continuation later than pauseTimeoutMs after the first recording
C16_Witness ==
    /\ call.op = "updateContext" /\ call.ret
    /\ call.before.has /\ call.before.at > 0 /\ now >= pauseTimeoutMs

\* C17: getCombinedCommand(current) returns previous + " " + current exactly
\* when a previous command is stored and fewer than pauseTimeoutMs
\* milliseconds have passed since it was recorded; otherwise it returns
\* current unchanged; it never modifies the stored context.
C17_GetCombinedCommandContract ==
    call.op = "getCombinedCommand"
        => /\ call.str = IF call.before.has /\ now - call.before.at < pauseTimeoutMs
                         THEN call.before.command \o <<" ">> \o call.arg
                         ELSE call.arg
           /\ recording = call.before
           /\ pauseHandler = IF call.before.has
                             THEN [lastCommand |-> call.before.command,
                                   lastTimestamp |-> call.before.at]
                             ELSE [lastCommand |-> NoCommand, lastTimestamp |-> 0]

\* C18: whenever a pattern (primary or alternative) of some registered
\* command matches the utterance given to processCommand, the handler of the
\* first such command in registration order is invoked with its match, and no
\* handler is invoked through the fuzzy path (with a null match) for that
\* utterance, also when the utterance is processed as a continuation.
C18_ExactBeforeFuzzy ==
    call.op = "processCommand" =>
        LET utterance == normalizeCommand(trim(call.arg))
            exact == {i \in DOMAIN commands :
                        \/ matches(utterance, commands[i].pattern)
                        \/ \E j \in DOMAIN commands[i].alternativePatterns :
                               matches(utterance, commands[i].alternativePatterns[j])}
        IN exact # {} =>
            /\ \E k \in DOMAIN call.attempts :
                   /\ call.attempts[k].match
                   /\ call.attempts[k].invoked \in exact
                   /\ \A i \in exact : call.attempts[k].invoked <= i
            /\ \A k \in DOMAIN call.attempts :
                   call.attempts[k].invoked # 0 => call.attempts[k].match

\* C19: in an execution attempt in which no pattern matches, the handler
\* invoked is that of the first command in registration order whose score
\* (its keywords that occur in the normalized input, divided by its keyword
\* count) is at least 0.7, 0.7 included, and it is invoked with a null match;
\* if every command scores below 0.7 no handler is invoked and the attempt
\* reports failure.
C19_FuzzyThreshold ==
    call.op = "processCommand" =>
        \A k \in DOMAIN call.attempts :
            LET a == call.attempts[k]
                exact == {i \in DOMAIN commands :
                            \/ matches(a.input, commands[i].pattern)
                            \/ \E j \in DOMAIN commands[i].alternativePatterns :
                                   matches(a.input, commands[i].alternativePatterns[j])}
                scoring == {i \in DOMAIN commands :
                              /\ Len(commands[i].keywords) > 0
                              /\ 10 * matchedKeywords(a.input, commands[i].keywords)
                                    >= 7 * Len(commands[i].keywords)}
            IN exact = {} =>
                IF scoring = {}
                THEN a.invoked = 0 /\ ~a.ret /\ (k = Len(call.attempts) => ~call.ret)
                ELSE /\ a.invoked \in scoring /\ ~a.match
                     /\ \A i \in scoring : a.invoked <= i

\* the second command is invoked on a score of exactly seven keywords of
\* ten, after the first command scored two of three
C19_Witness ==
    /\ call.op = "processCommand"
    /\ \E k \in DOMAIN call.attempts :
        /\ call.attempts[k].invoked = 2 /\ ~call.attempts[k].match
        /\ Len(commands[2].keywords) = 10
        /\ matchedKeywords(call.attempts[k].input, commands[2].keywords) = 7
        /\ matchedKeywords(call.attempts[k].input, commands[1].keywords) = 2

\* C20: normalizeCommand is idempotent: normalizing a normalized transcript
\* gives it back unchanged, also for a transcript that holds the same
\* misheard phrase twice.
C20_NormalizeIdempotent ==
    call.op = "normalizeCommand again" => call.str = call.arg

\* C21: normalizeCommand replaces spelled letter names by letters ('you' by
\* 'u', 'are' by 'r', ...) only when the whole lowered utterance is a run of
\* single letters or spelled letter names separated by periods or spaces; in
\* any other utterance the pass replaces no word.
C21_PhoneticOnlyWhenSpelling ==
    call.op = "normalizeCommand" =>
        LET lowered == trim(toLowerCase(call.arg))
            words == split(replaceDots(lowered))
            spelling == \A i \in DOMAIN words :
                            \/ Len(words[i]) <= 1
                            \/ \E k \in DOMAIN phoneticMap : phoneticMap[k][1] = words[i]
        IN ~spelling => \/ spellAcronym(lowered) = lowered
                        \/ split(spellAcronym(lowered)) = words

\* C22: in a materials command on a list of length n the item argument
\* resolves to the last item for 'last', to item k for an integer k with
\* 1 <= k <= n, and for any other fragment to the first material whose name
\* contains it whatever the case. When the resolution fails the command
\* returns false and leaves the list as it was; when it succeeds the command
\* returns true and exactly the resolved item is removed or updated.
C22_ItemResolution ==
    (call.op = "processVoiceCommand"
        /\ call.intent.kind \in {"remove", "quantity", "unit", "name"}) =>
        LET old == call.old
            item == call.intent.item
            n == Len(old)
            named == {i \in 1..n : includes(toLowerCase(old[i].name), toLowerCase(item))}
            resolved ==
                IF item = <<"l", "a", "s", "t">> THEN n
                ELSE IF \A c \in DOMAIN item : item[c] \in Digits
                THEN IF digitsValue(item, Len(item)) \in 1..n
                     THEN digitsValue(item, Len(item)) ELSE 0
                ELSE IF named = {} THEN 0
                ELSE CHOOSE i \in named : \A j \in named : i <= j
        IN IF resolved = 0
           THEN ~call.ret /\ editor.materials = old
           ELSE /\ call.ret
                /\ editor.materials =
                     IF call.intent.kind = "remove"
                     THEN [i \in 1..(n - 1) |-> IF i < resolved THEN old[i] ELSE old[i + 1]]
                     ELSE [old EXCEPT ![resolved][call.intent.kind] = call.intent.value]

\* C23: when the dispatch of an utterance fails, a suggestion is offered
\* exactly when the failed input contains a mishearing of the suggestion
\* table, and it is the canonical command of the first table entry with such
\* a mishearing; otherwise nothing is offered.
C23_SuggestionOffered ==
    (call.op \in {"processCommand", "onresult"} /\ ~call.ret) =>
        LET failed == trim(toLowerCase(call.arg))
            entries == {i \in DOMAIN suggestionMap :
                          \E m \in suggestionMap[i].mishearings : includes(failed, m)}
        IN call.offer = IF entries = {} THEN <<>>
                        ELSE <<suggestionMap[CHOOSE i \in entries :
                                                \A j \in entries : i <= j].correct>>

\* C24: when a finalized utterance U2 arrives less than pauseTimeoutMs after
\* an utterance U1 whose dispatch failed, the command handed to the matcher
\* for the continuation is U1 + " " + U2.
C24_ContinuationCombines ==
    (call.op \in {"processCommand", "onresult"}
        /\ call.before.has /\ call.before.failed
        /\ now - call.before.at < pauseTimeoutMs) =>
        IF call.op = "processCommand"
        THEN call.attempts[1].input
                = call.before.command \o <<" ">> \o trim(call.arg)
        ELSE call.str
                = call.before.command \o <<" ">>
                    \o normalizeCommand(toLowerCase(call.arg))

\* C25: whenever the service is listening, targetField and currentCallback
\* are non-null and are those of the startListening call that opened the
\* session, and a result event with a transcript that arrives while the
\* service is listening is delivered to the callback.
C25_ListeningHasCallback ==
    /\ isListening =>
        /\ targetField # NULL /\ currentCallback # NULL
        /\ currentCallback = CallbackOf(targetField)
        /\ session # NULL => targetField = session
    /\ (last.op = "result" /\ last.kind \in {"interim", "final"} /\ last.wasListening)
        => last.cbInvoked

\* C28: when stopListening stops a listening session whose final transcript
\* is not empty and the end event of the stopped engine follows, the end
\* event hands the buffered transcript to the session's callback (once: one
\* end event calls the callback at most once).
C28_FlushOnTermination ==
    (last.op = "end" /\ last.flush) => last.cbInvoked

\* C27: a timer callback whose call of engine start() throws
\* InvalidStateError (the deferred start, the retry of an error, the restart
\* after an end event) discards the engine handle, creates a new, inactive
\* one and schedules the closure that starts it.
C27_InvalidStateStep ==
    (/\ last'.op = "timer" /\ last'.startCalled /\ last'.kind # "endBackoff"
     /\ StartOutcome(World, FALSE) = "InvalidStateError")
        => /\ recognition' # 0 /\ recognition' # recognition
           /\ engines'[recognition'].st = "inactive"
           /\ \E tm \in BagToSet(timers') :
                tm.kind \in {"startRetry", "recreated", "recreatedOrGiveUp"}

C27_InvalidStateRecreates == [][C27_InvalidStateStep]_vars

\* C29: the n-th consecutive network retry is scheduled with a delay of
\* 2 * retryDelay * 1.5^(n-1) plus a jitter in [0, jitterRange), and the
\* handler that schedules it has incremented retryCount.
C29_NetworkBackoff ==
    /\ \A n \in 1..Len(backoffs) :
        /\ backoffs[n] >= 2 * BackoffDelay(n)
        /\ backoffs[n] < 2 * BackoffDelay(n) + jitterRange
    /\ (last.op = "error" /\ last.kind = "network" /\ last.sched > 0)
        => retryCount >= 1

\* C26: when the end event of the engine arrives while the service is
\* listening (onend schedules the restart), then, timers firing fairly, a
\* timer callback eventually calls engine start() again with the session
\* still listening, unless a silence or duration timer stopped the session
\* or the platform refused the start of an inactive engine (or no further
\* engine object can be created within MaxEngines).
C26_EndWhileListening == last.op = "end" /\ last.sched > 0

C26_StartedAgain ==
    \/ last.op = "timer" /\ last.startCalled /\ isListening /\ session # NULL
    \/ last.op \in {"autoStop", "processing"} /\ ~isListening
    \/ /\ last.op = "timer" /\ last.startCalled
       /\ recognition # 0 /\ engines[recognition].st = "inactive"
    \/ NextEngine(World) > MaxEngines

C30_AtMostOneHandler ==
    call.op = "processCommand" =>
        LET invocations == {k \in DOMAIN call.attempts : call.attempts[k].invoked # 0}
        IN /\ Cardinality(invocations) <= 1
           /\ invocations = {} => ~call.ret

====
